---- MODULE Spec2Model ----
(***************************************************************************)
(* A model of the session machinery of sockjs-tornado: the session state   *)
(* machine, the transport binding protocol, the outbound buffer, and the   *)
(* garbage collected session pool of one Endpoint.                         *)
(*                                                                         *)
(* Every request handler, timer callback and application call is one       *)
(* action: Tornado runs them to completion on a single event loop, so a    *)
(* handler is atomic.  A handler is computed as a function from the world  *)
(* (a record of all program state) to the world, following the calls the   *)
(* code makes, including the re-entrant ones (a write that finishes the    *)
(* request and detaches the transport, a callback that closes the          *)
(* session).                                                               *)
(***************************************************************************)
EXTENDS Integers, Sequences, FiniteSets, TLC

VARIABLES
    sessions,         \* session object -> its fields (and its observation logs)
    transports,       \* request handler object -> its fields (and what it wrote)
    active_sessions,  \* Endpoint.active_sessions: session_id -> session object
    pool_sessions,    \* SessionPool.sessions: session_id -> session object
    cycles,           \* SessionPool.cycles: session object -> stamp
    pool,             \* SessionPool.pool: the heap of <<stamp, session>>
    stopping,         \* SessionPool.stopping
    started,          \* Endpoint.started
    now,              \* time.time()
    heartbeat_at      \* when the heartbeat_periodic_callback was started or last ran

vars == <<sessions, transports, active_sessions, pool_sessions, cycles, pool,
          stopping, started, now, heartbeat_at>>

---------------------------------------------------------------------------
(* Bounds of the model *)

\* session objects alive at once
MaxSessions == 2
\* request handlers (transports) alive at once
MaxTransports == 3
\* payloads the application passes to send, per session
MaxSends == 2
\* on_message callbacks delivered, per session
MaxDispatch == 2
\* the clock stops here; requests and application calls come before it,
\* timers and disconnects run up to it
MaxTime == 36
\* raw websocket connections open at once
MaxRawSockets == 2
\* the response_limit setting the endpoint is constructed with, in bytes
ResponseLimit == 12
\* the length of the prelude XhrStreamingTransport.post writes, in bytes, in
\* the proportion to the response_limit that 2049 has to 4096
PreludeLen == 6

\* the frames of a session the model keeps a record of
MaxFrames == 5

---------------------------------------------------------------------------
(* Program constants *)

\* NEW in the source (a reserved word here)
NEW_ == 0
OPEN == 1
CLOSING == 2
CLOSED == 3

heartbeat_delay == 25
heartbeat_timeout == 5
disconnect_delay == 5
\* set_expiry reads a value below this as a delta from the current time
DeltaLimit == 1000000000

\* Python's None, for a session or transport reference
None == 0

\* DEFAULT_SETTINGS with the modelled endpoint's response_limit, and with
\* immediate_flush switched off as examples/bench/bench.py does (no code
\* of the package reads that setting)
settings ==
    [ heartbeat_delay |-> heartbeat_delay,
      heartbeat_timeout |-> heartbeat_timeout,
      disconnect_delay |-> disconnect_delay,
      response_limit |-> ResponseLimit,
      immediate_flush |-> FALSE,
      verify_ip |-> TRUE ]

SessionObjs == 1..MaxSessions
TransportObjs == 1..MaxTransports

\* the session id the client asks for
ClientIds == {"s1"}
\* "raw" is the id of every raw websocket session
SessionIds == ClientIds \cup {"raw"}
\* the client's address, and the address of another host
ClientIp == "10.0.0.1"
RemoteIps == {ClientIp, "10.0.0.2"}

\* the payloads the application sends, in this order, on a session
Messages == <<"m1", "m2", "m3", "m4">>

NoReason == [code |-> 0, reason |-> ""]

---------------------------------------------------------------------------
(* The frame codec *)

\* proto.OPEN
proto_OPEN == "o"

\* proto.close_frame(code, reason)
close_frame(code, reason) == "c[" \o ToString(code) \o ",\"" \o reason \o "\"]"

\* proto.encode(message): the JSON encoding of a string without special characters
encode(message) == "\"" \o message \o "\""

\* ','.join(messages)
RECURSIVE join(_)
join(messages) ==
    IF messages = <<>> THEN ""
    ELSE IF Len(messages) = 1 THEN messages[1]
    ELSE messages[1] \o "," \o join(Tail(messages))

---------------------------------------------------------------------------
(* The world a handler runs in *)

\* a session object before it is constructed
NoSession ==
    [ sid |-> "", cls |-> "none", state |-> NEW_, close_reason |-> NoReason,
      send_transport |-> None, recv_transport |-> None, send_buffer |-> <<>>,
      expires_at |-> 0, ttl |-> 0, conn |-> FALSE, conn_info |-> "",
      callbacks |-> <<>>, states |-> <<>>, wire |-> <<>>, nsent |-> 0,
      failed |-> FALSE ]

\* a request handler object before it is constructed
NoTransport ==
    [ kind |-> "none", session |-> None, finished |-> FALSE, connected |-> TRUE,
      ip |-> "", amount_limit |-> 0, out |-> <<>>, error |-> "" ]

\* a request handler object nothing refers to any more: its request has
\* finished (or its socket has closed) and no session holds it
TransportGarbage(t) ==
    /\ transports[t].kind # "none"
    /\ transports[t].session = None
    /\ transports[t].finished \/ ~transports[t].connected
    /\ \A s \in SessionObjs :
          sessions[s].send_transport # t /\ sessions[s].recv_transport # t

\* a session object nothing refers to any more: closed, dropped by the pool
\* and by the endpoint, and held by no request handler
SessionGarbage(s) ==
    /\ sessions[s].cls # "none"
    /\ sessions[s].state \in {CLOSING, CLOSED}
    /\ \A i \in DOMAIN pool_sessions : pool_sessions[i] # s /\ active_sessions[i] # s
    /\ \A i \in DOMAIN pool : pool[i][2] # s
    /\ \A t \in TransportObjs : transports[t].session # s
    /\ sessions[s].send_transport = None /\ sessions[s].recv_transport = None

\* the state a handler starts from: the program's state, the objects the
\* Python runtime has freed gone from it
World ==
    [ sessions |-> [s \in SessionObjs |->
                      IF SessionGarbage(s) THEN NoSession ELSE sessions[s]],
      transports |-> [t \in TransportObjs |->
                        IF TransportGarbage(t) THEN NoTransport ELSE transports[t]],
      active_sessions |-> active_sessions, pool_sessions |-> pool_sessions,
      cycles |-> cycles, pool |-> pool, stopping |-> stopping,
      started |-> started, now |-> now, heartbeat_at |-> heartbeat_at,
      \* whether the application's on_close raises in this handler
      raising |-> FALSE,
      \* the sessions the running gc pass has popped off the heap, in order
      popped |-> <<>>,
      \* the exception the running handler has not caught, "" for none
      exc |-> "" ]

\* the value of e handed to F: one statement after another
Then(e, F(_)) == CHOOSE r \in {F(v) : v \in {e}} : TRUE

\* session s with field f set to v
SetS(w, s, f, v) == [w EXCEPT !.sessions[s][f] = v]
\* transport t with field f set to v
SetT(w, t, f, v) == [w EXCEPT !.transports[t][f] = v]

\* an uncaught exception ends the handler; the world remembers its name
Raise(w, name) == [w EXCEPT !.exc = name]

\* the capabilities the transport classes declare
sendable(kind) == kind \in {"xhr", "xhr_streaming", "websocket", "rawwebsocket"}
recvable(kind) == kind \in {"xhr_send", "websocket", "rawwebsocket"}

\* StateMixin.closed
closed(sess) == sess.state \in {CLOSING, CLOSED}

---------------------------------------------------------------------------
(* ExpiryMixin *)

touch(w, s) == SetS(w, s, "expires_at", w.now + w.sessions[s].ttl)

set_expiry(w, s, expires) ==
    IF expires = 0 THEN SetS(w, s, "expires_at", 0)
    ELSE IF expires < DeltaLimit THEN SetS(w, s, "expires_at", expires + w.now)
    ELSE SetS(w, s, "expires_at", expires)

\* a has_expired that does not look at expires_at
has_expired_closed(w, s, current_time) == closed(w.sessions[s])

\* a has_expired that is ExpiryMixin's alone, blind to the session's state
has_expired_ttl(w, s, current_time) ==
    IF w.sessions[s].expires_at = 0 THEN FALSE
    ELSE w.sessions[s].expires_at <=
            (IF current_time # 0 THEN current_time ELSE w.now)

\* BaseSession.has_expired(now) over ExpiryMixin.has_expired
has_expired(w, s, current_time) ==
    IF closed(w.sessions[s]) THEN TRUE
    ELSE IF w.sessions[s].expires_at = 0 THEN FALSE
    ELSE w.sessions[s].expires_at <=
            (IF current_time # 0 THEN current_time ELSE w.now)

---------------------------------------------------------------------------
(* TransportMixin: the two slots of a session *)

\* the try block of TransportMixin.attach_transport on the slots <<send,
\* recv>> of a session, for transport t with capabilities snd, rcv: the
\* slots as it leaves them, and in exc what it raises
attach_transport_try(send_transport, recv_transport, t, snd, rcv) ==
    IF snd /\ send_transport # None
    THEN [send |-> send_transport, recv |-> recv_transport, exc |-> "TransportAlreadySet"]
    ELSE IF rcv /\ recv_transport # None
    THEN \* the send slot is assigned by now
         [send |-> (IF snd THEN t ELSE send_transport), recv |-> recv_transport,
          exc |-> "TransportAlreadySet"]
    ELSE [send |-> (IF snd THEN t ELSE send_transport),
          recv |-> (IF rcv THEN t ELSE recv_transport), exc |-> ""]

\* an attach_transport whose except clause restores nothing
attach_transport_unrestored(send_transport, recv_transport, t, snd, rcv) ==
    attach_transport_try(send_transport, recv_transport, t, snd, rcv)

\* TransportMixin.attach_transport: the except clause puts orig_send and
\* orig_recv back and raises again
TransportMixin_attach_transport(send_transport, recv_transport, t, snd, rcv) ==
    IF ~(rcv \/ snd)
    THEN [send |-> send_transport, recv |-> recv_transport, exc |-> "AssertionError"]
    ELSE Then(attach_transport_try(send_transport, recv_transport, t, snd, rcv),
              LAMBDA r : IF r.exc # ""
                         THEN [send |-> send_transport, recv |-> recv_transport,
                               exc |-> r.exc]
                         ELSE r)

\* BaseSession.attach_transport: the world, exc set when it raises
attach_transport(w, s, t) ==
    IF w.sessions[s].state = CLOSED THEN Raise(w, "SessionClosed")
    ELSE Then(TransportMixin_attach_transport(
                  w.sessions[s].send_transport, w.sessions[s].recv_transport, t,
                  sendable(w.transports[t].kind), recvable(w.transports[t].kind)),
              LAMBDA r :
                  [w EXCEPT !.sessions[s].send_transport = r.send,
                            !.sessions[s].recv_transport = r.recv,
                            !.exc = IF r.exc = "TransportAlreadySet"
                                    THEN "AlreadyOpenedError" ELSE r.exc])

\* TransportMixin.detach_transport on the slots of a session
TransportMixin_detach_transport(send_transport, recv_transport, t, snd, rcv) ==
    IF ~(rcv \/ snd)
    THEN [send |-> send_transport, recv |-> recv_transport, exc |-> "AssertionError"]
    ELSE IF snd /\ send_transport # None /\ t # send_transport
    THEN [send |-> send_transport, recv |-> recv_transport, exc |-> "TransportAlreadySet"]
    ELSE IF rcv /\ recv_transport # None /\ t # recv_transport
    THEN [send |-> send_transport, recv |-> recv_transport, exc |-> "TransportAlreadySet"]
    ELSE [send |-> (IF snd THEN None ELSE send_transport),
          recv |-> (IF rcv THEN None ELSE recv_transport), exc |-> ""]

\* session.detach_transport(transport): the world, exc set when it raises
detach_transport(w, s, t) ==
    Then(TransportMixin_detach_transport(
             w.sessions[s].send_transport, w.sessions[s].recv_transport, t,
             sendable(w.transports[t].kind), recvable(w.transports[t].kind)),
         LAMBDA r :
             [w EXCEPT !.sessions[s].send_transport = r.send,
                       !.sessions[s].recv_transport = r.recv,
                       !.exc = r.exc])

\* the next statement F runs on the world e leaves, unless e has raised
Do(e, F(_)) == CHOOSE r \in {IF v.exc # "" THEN v ELSE F(v) : v \in {e}} : TRUE

---------------------------------------------------------------------------
(* BaseTransport: writing to the client and letting go of the session *)

\* BaseHandler.safe_finish; finish() runs on_finish, whose detach_session
\* finds the session reference already cleared
safe_finish(w, t) == SetT(w, t, "finished", TRUE)

\* detach_session that forgets to clear the session's slots
detach_session_slots_kept(w, t) ==
    IF w.transports[t].session = None THEN w
    ELSE Do(SetT(w, t, "session", None),
            LAMBDA d : set_expiry(safe_finish(d, t), w.transports[t].session,
                                  settings.disconnect_delay))

\* BaseTransport.detach_session
detach_session(w, t) ==
    IF w.transports[t].session = None THEN w
    ELSE Do(Do(SetT(w, t, "session", None),
               LAMBDA x : detach_transport(x, w.transports[t].session, t)),
            LAMBDA d : set_expiry(safe_finish(d, t), w.transports[t].session,
                                  settings.disconnect_delay))

\* encode_frame of the transport classes
encode_frame(kind, data) ==
    IF kind \in {"xhr", "xhr_streaming"} THEN data \o "\n" ELSE data

\* RequestHandler.write + flush, WebSocketHandler.write_message: the bytes
\* reach the client while the connection is up
write_out(w, t, data) ==
    IF w.transports[t].connected
    THEN SetT(w, t, "out", Append(w.transports[t].out, data))
    ELSE w

\* StreamingTransport.should_finish
should_finish(amount_limit) == amount_limit <= 0

\* a polling send_raw that keeps the response open and the session attached
PollingTransport_send_raw_open(w, t, data) == write_out(w, t, data)

\* PollingTransport.send_raw
PollingTransport_send_raw(w, t, data) ==
    Do(Do(write_out(w, t, data), LAMBDA o : detach_session(o, t)),
       LAMBDA d : safe_finish(d, t))

\* StreamingTransport.send_raw
StreamingTransport_send_raw(w, t, data) ==
    Do([write_out(w, t, data) EXCEPT !.transports[t].amount_limit = @ - Len(data)],
       LAMBDA o : IF should_finish(o.transports[t].amount_limit)
                  THEN \* self.finish(), whose on_finish detaches the session
                       Do(safe_finish(o, t), LAMBDA f : detach_session(f, t))
                  ELSE o)

\* BaseTransport.send -> send_raw of the transport's class
Transport_send(w, t, data) ==
    CASE w.transports[t].kind = "xhr" ->
           PollingTransport_send_raw(w, t, encode_frame("xhr", data))
      [] w.transports[t].kind = "xhr_streaming" ->
           StreamingTransport_send_raw(w, t, encode_frame("xhr_streaming", data))
      [] OTHER -> write_out(w, t, encode_frame(w.transports[t].kind, data))

\* the frames of session s in the order its client receives them
Wire(w, s, t, frame) ==
    IF w.transports[t].connected /\ Len(w.sessions[s].wire) < MaxFrames
    THEN SetS(w, s, "wire", Append(w.sessions[s].wire, frame))
    ELSE w

\* whether a write to transport t raises IOError: io is whether the socket
\* of an HTTP response takes the write
IOFails(w, t, io) == ~io /\ w.transports[t].kind \in {"xhr", "xhr_streaming"}

---------------------------------------------------------------------------
(* BaseSession / Session / RawWebSocket: the outbound path *)

\* BaseSession.write: [w, ok].  When the write raises IOError nothing has
\* been written.
write(w, s, frame, io) ==
    IF w.sessions[s].send_transport = None THEN [w |-> w, ok |-> FALSE]
    ELSE IF IOFails(w, w.sessions[s].send_transport, io) THEN [w |-> w, ok |-> FALSE]
    ELSE Then(Do(Wire(w, s, w.sessions[s].send_transport, frame),
                 LAMBDA w0 : Transport_send(w0, w.sessions[s].send_transport, frame)),
              LAMBDA w1 : IF w1.exc # "" THEN [w |-> w1, ok |-> FALSE]
                          ELSE [w |-> touch(w1, s), ok |-> TRUE])

\* an append_to_buffer that puts the payload at the head
append_to_buffer_head(w, s, data) ==
    SetS(w, s, "send_buffer", <<data>> \o w.sessions[s].send_buffer)

\* Session.append_to_buffer
append_to_buffer(w, s, data) ==
    SetS(w, s, "send_buffer", Append(w.sessions[s].send_buffer, data))

\* Session.clear_buffer
clear_buffer(w, s) == SetS(w, s, "send_buffer", <<>>)

\* Session.get_buffer; RawWebSocket.get_buffer returns []
get_buffer(w, s) ==
    IF w.sessions[s].cls = "RawWebSocket" THEN <<>> ELSE w.sessions[s].send_buffer

\* BaseSession.send_frame (multi is True at every call); RawWebSocket.send_frame
send_frame(w, s, data, io) ==
    IF w.sessions[s].cls = "RawWebSocket"
    THEN write(w, s, data, io).w
    ELSE Then(write(w, s, "a[" \o data \o "]", io),
              LAMBDA r : IF r.w.exc = "" /\ ~r.ok
                         THEN append_to_buffer(r.w, s, data) ELSE r.w)

\* BaseSession.send(message); RawWebSocket.send(data)
send(w, s, message, io) ==
    IF w.sessions[s].cls = "RawWebSocket"
    THEN write(w, s, message, io).w
    ELSE send_frame(w, s, encode(message), io)

\* BaseSession.send_multi(messages, raw=True)
send_multi(w, s, messages, io) == send_frame(w, s, join(messages), io)

\* BaseSession.flush
flush(w, s, io) ==
    IF w.sessions[s].send_transport = None THEN w
    ELSE IF get_buffer(w, s) = <<>> THEN w
    ELSE Do(send_multi(w, s, get_buffer(w, s), io), LAMBDA f : clear_buffer(f, s))

\* a heartbeat sent the way a message is: framed as an array, and buffered
\* when it cannot be written
send_heartbeat_buffered(w, s, io) == send_frame(w, s, "h", io)

\* BaseSession.send_heartbeat
send_heartbeat(w, s, io) == write(w, s, "h", io).w

---------------------------------------------------------------------------
(* StateMixin and the close path *)

\* an assignment to _state; the session keeps the values it was assigned
SetState(w, s, value) ==
    [w EXCEPT !.sessions[s].state = value,
              !.sessions[s].states = Append(@, value)]

\* the application's connection object saw this callback
Callback(w, s, name) ==
    SetS(w, s, "callbacks", Append(w.sessions[s].callbacks, name))

\* StateMixin.did_close
did_close(w, s) == SetState(w, s, CLOSED)

\* BaseTransport.send_close_frame; a no-op in RawWebSocketTransport
send_close_frame(w, t, close_reason) ==
    IF w.transports[t].kind = "rawwebsocket" THEN w
    ELSE Transport_send(w, t, close_frame(close_reason.code, close_reason.reason))

\* the close frame of session s, as its client receives it from transport t
WireClose(w, s, t) ==
    IF w.transports[t].kind = "rawwebsocket" THEN w
    ELSE Wire(w, s, t, close_frame(w.sessions[s].close_reason.code,
                                   w.sessions[s].close_reason.reason))

\* a session_closed that lets go of the session without a close frame
Transport_session_closed_silent(w, t, s) ==
    Do(detach_session(w, t),
       LAMBDA d : IF d.transports[t].kind \in {"websocket", "rawwebsocket"}
                  THEN safe_finish(d, t) ELSE d)

\* BaseTransport.session_closed; WebSocketTransport.session_closed then
\* closes the socket
Transport_session_closed(w, t, s) ==
    Do(Do(IF sendable(w.transports[t].kind)
          THEN Do(Do(WireClose(w, s, t),
                     LAMBDA x : send_close_frame(x, t, w.sessions[s].close_reason)),
                  LAMBDA c : did_close(c, s))
          ELSE w,
          LAMBDA c : detach_session(c, t)),
       LAMBDA d : IF d.transports[t].kind \in {"websocket", "rawwebsocket"}
                  THEN safe_finish(d, t) ELSE d)

\* Endpoint.session_closed
Endpoint_session_closed(w, s) ==
    [w EXCEPT !.active_sessions[w.sessions[s].sid] = None]

\* Connection.session_closed: the endpoint forgets the session, then the
\* application's on_close runs, and may raise
Connection_session_closed(w, s) ==
    Do(Callback(Endpoint_session_closed(w, s), s, "close"),
       LAMBDA c : IF c.raising THEN Raise(c, "Exception") ELSE c)

\* the first statement of BaseSession.on_close: whatever session_closed
\* raises is logged (the session remembers that it was) and dropped, and
\* conn is unbound in any case
on_close_conn(w, s) ==
    Then(Connection_session_closed(w, s),
         LAMBDA c : [c EXCEPT !.sessions[s].failed = @ \/ c.exc # "",
                              !.sessions[s].conn = FALSE,
                              !.exc = ""])

\* an on_close with no try around conn.session_closed()
on_close_untried(w, s) ==
    Do(IF w.sessions[s].conn
       THEN Do(Connection_session_closed(w, s),
               LAMBDA c : SetS(c, s, "conn", FALSE))
       ELSE w,
       LAMBDA w1 :
           Do(IF w1.sessions[s].send_transport # None
              THEN Do(Transport_session_closed(w1, w1.sessions[s].send_transport, s),
                      LAMBDA c : SetS(c, s, "send_transport", None))
              ELSE w1,
              LAMBDA w2 :
                  IF w2.sessions[s].recv_transport # None
                  THEN Do(Transport_session_closed(w2, w2.sessions[s].recv_transport, s),
                          LAMBDA c : SetS(c, s, "recv_transport", None))
                  ELSE w2))

\* BaseSession.on_close
on_close(w, s) ==
    Do(Do(IF w.sessions[s].conn
          THEN on_close_conn(w, s)
          ELSE w,
          LAMBDA w1 :
              IF w1.sessions[s].send_transport # None
              THEN Do(Transport_session_closed(w1, w1.sessions[s].send_transport, s),
                      LAMBDA c : SetS(c, s, "send_transport", None))
              ELSE w1),
       LAMBDA w2 :
           IF w2.sessions[s].recv_transport # None
           THEN Do(Transport_session_closed(w2, w2.sessions[s].recv_transport, s),
                   LAMBDA c : SetS(c, s, "recv_transport", None))
           ELSE w2)

\* a close that writes the close frame to the send transport and leaves the
\* session open and attached
close_frame_only(w, s, code, message) ==
    IF closed(w.sessions[s]) \/ w.sessions[s].send_transport = None THEN w
    ELSE Do(Do(SetS(w, s, "close_reason", [code |-> code, reason |-> message]),
               LAMBDA x : WireClose(x, s, w.sessions[s].send_transport)),
            LAMBDA x : send_close_frame(x, w.sessions[s].send_transport,
                                        [code |-> code, reason |-> message]))

\* a close that takes the reason of the last call
close_overwriting(w, s, code, message) ==
    IF closed(w.sessions[s])
    THEN [w EXCEPT !.sessions[s].close_reason = [code |-> code, reason |-> message]]
    ELSE Do([SetState(w, s, CLOSING) EXCEPT
                 !.sessions[s].close_reason = [code |-> code, reason |-> message]],
            LAMBDA c : on_close(c, s))

\* a close that does not look at self.closed first
close_again(w, s, code, message) ==
    Do([SetState(w, s, CLOSING) EXCEPT
            !.sessions[s].close_reason = [code |-> code, reason |-> message]],
       LAMBDA c : on_close(c, s))

\* StateMixin.close
close(w, s, code, message) ==
    IF closed(w.sessions[s]) THEN w
    ELSE Do([SetState(w, s, CLOSING) EXCEPT
                 !.sessions[s].close_reason = [code |-> code, reason |-> message]],
            LAMBDA c : on_close(c, s))

---------------------------------------------------------------------------
(* The application: Connection *)

\* Connection.send with the next payload of the session
Connection_send(w, s, io) ==
    IF closed(w.sessions[s]) \/ w.sessions[s].nsent >= MaxSends THEN w
    ELSE Do(SetS(w, s, "nsent", w.sessions[s].nsent + 1),
            LAMBDA n : send(n, s, Messages[n.sessions[s].nsent], io))

\* Connection.close
Connection_close(w, s) ==
    IF ~closed(w.sessions[s]) THEN close(w, s, 3000, "Go away!") ELSE w

\* what an application callback does with its connection
AppChoices == {"none", "send", "close", "raise"}

AppCallback(w, s, choice, io) ==
    CASE choice = "send" -> Connection_send(w, s, io)
      [] choice = "close" -> Connection_close(w, s)
      [] choice = "raise" -> Raise(w, "Exception")
      [] OTHER -> w

---------------------------------------------------------------------------
(* Opening a session and dispatching to it *)

\* Endpoint.session_opened
Endpoint_session_opened(w, s) ==
    [w EXCEPT !.active_sessions[w.sessions[s].sid] = s]

\* Connection.session_opened: the endpoint registers the session as active,
\* then the application's on_open runs
Connection_session_opened(w, s, cb, io) ==
    Do(Do(Endpoint_session_opened(w, s), LAMBDA e : Callback(e, s, "open")),
       LAMBDA c : AppCallback(c, s, cb, io))

\* BaseSession.on_open
on_open(w, s, cb, io) ==
    IF ~w.sessions[s].conn THEN Raise(w, "UnboundSessionError")
    ELSE IF w.sessions[s].conn_info = "" THEN Raise(w, "RuntimeError")
    ELSE Do(touch(w, s), LAMBDA x : Connection_session_opened(x, s, cb, io))

\* StateMixin.open
open(w, s, cb, io) ==
    IF w.sessions[s].state # NEW_ THEN Raise(w, "AlreadyOpenedError")
    ELSE Do(SetState(w, s, OPEN), LAMBDA o : on_open(o, s, cb, io))

\* the loop of BaseSession.dispatch over n messages
RECURSIVE dispatch_loop(_, _, _, _, _)
dispatch_loop(w, s, n, cb, io) ==
    IF n = 0 THEN w
    ELSE IF ~w.sessions[s].conn
    THEN \* self.conn is None
         Raise(w, "AttributeError")
    ELSE Do(Do(Callback(w, s, "message"), LAMBDA c : AppCallback(c, s, cb, io)),
            LAMBDA a : dispatch_loop(a, s, n - 1, cb, io))

\* BaseSession.dispatch
dispatch(w, s, n, cb, io) ==
    Do(touch(w, s), LAMBDA x : dispatch_loop(x, s, n, cb, io))

---------------------------------------------------------------------------
(* SessionPool *)

\* the order of the heap entries (stamp, session): Python compares the tuples,
\* the stamps first and the session objects on a tie
entry_less(a, b) == a[1] < b[1] \/ (a[1] = b[1] /\ a[2] < b[2])

\* a push that puts the item first, whatever its stamp
heappush_front(heap, item) == <<item>> \o heap

\* heapq.heappush; the heap is kept as the sequence heappop would produce
RECURSIVE heappush(_, _)
heappush(heap, item) ==
    IF heap = <<>> THEN <<item>>
    ELSE IF entry_less(item, Head(heap)) THEN <<item>> \o heap
    ELSE <<Head(heap)>> \o heappush(Tail(heap), item)

\* list.remove(item), the ValueError of a missing item swallowed
RECURSIVE list_remove(_, _)
list_remove(heap, item) ==
    IF heap = <<>> THEN <<>>
    ELSE IF Head(heap) = item THEN Tail(heap)
    ELSE <<Head(heap)>> \o list_remove(Tail(heap), item)

\* what SessionPool.add raises for a session with this id and state
add_exc(w, session_id, state) ==
    IF w.stopping THEN "RuntimeError"
    ELSE IF w.pool_sessions[session_id] # None THEN "RuntimeError"
    ELSE IF state # NEW_ THEN "RuntimeError"
    ELSE ""

\* an add that registers and pushes the session without stamping it
add_unstamped(w, s) ==
    IF add_exc(w, w.sessions[s].sid, w.sessions[s].state) # ""
    THEN Raise(w, add_exc(w, w.sessions[s].sid, w.sessions[s].state))
    ELSE [w EXCEPT !.pool_sessions[w.sessions[s].sid] = s,
                   !.pool = heappush(@, <<w.now, s>>)]

\* SessionPool.add: the world, with exc when it raises
add(w, s) ==
    IF add_exc(w, w.sessions[s].sid, w.sessions[s].state) # ""
    THEN Raise(w, add_exc(w, w.sessions[s].sid, w.sessions[s].state))
    ELSE [w EXCEPT !.cycles[s] = w.now,
                   !.pool_sessions[w.sessions[s].sid] = s,
                   !.pool = heappush(@, <<w.now, s>>)]

\* a remove that forgets the session without closing it
remove_unclosed(w, session_id) ==
    IF w.pool_sessions[session_id] = None THEN w
    ELSE [w EXCEPT !.pool_sessions[session_id] = None,
                   !.cycles[w.pool_sessions[session_id]] = 0]

\* SessionPool.remove of the session registered under session_id; an
\* exception of session.close() is logged and swallowed
remove(w, session_id) ==
    IF w.pool_sessions[session_id] = None THEN w
    ELSE Then(Do([w EXCEPT !.pool_sessions[session_id] = None,
                           !.cycles[w.pool_sessions[session_id]] = 0,
                           !.pool = IF w.cycles[w.pool_sessions[session_id]] # 0
                                    THEN list_remove(@,
                                           <<w.cycles[w.pool_sessions[session_id]],
                                             w.pool_sessions[session_id]>>)
                                    ELSE @],
                 LAMBDA r : close(r, w.pool_sessions[session_id], 3000, "Go away!")),
              LAMBDA c : [c EXCEPT !.exc = ""])

RECURSIVE gc_loop(_, _)

\* a gc loop that closes an expired session on one visit, leaves it on the
\* heap, and removes it on the next
gc_loop_close_first(w, current_time) ==
    IF w.pool = <<>> THEN w
    ELSE IF w.cycles[w.pool[1][2]] >= current_time THEN w
    ELSE Do(Do([w EXCEPT !.pool = Tail(@), !.popped = Append(@, w.pool[1][2])],
               LAMBDA p :
                   IF has_expired(p, w.pool[1][2], current_time)
                   THEN IF closed(p.sessions[w.pool[1][2]])
                        THEN remove(p, p.sessions[w.pool[1][2]].sid)
                        ELSE Do(close(p, w.pool[1][2], 3000, "Go away!"),
                                LAMBDA c : [c EXCEPT !.pool = heappush(@, w.pool[1])])
                   ELSE [p EXCEPT !.cycles[w.pool[1][2]] = current_time,
                                  !.pool = heappush(@, <<current_time, w.pool[1][2]>>)]),
            LAMBDA g : gc_loop(g, current_time))

\* the loop of SessionPool.gc
gc_loop(w, current_time) ==
    IF w.pool = <<>> THEN w
    ELSE IF w.cycles[w.pool[1][2]] >= current_time
    THEN \* we've looped through all sessions
         w
    ELSE Do(Do([w EXCEPT !.pool = Tail(@), !.popped = Append(@, w.pool[1][2])],
               LAMBDA p :
                   IF has_expired(p, w.pool[1][2], current_time)
                   THEN remove(p, p.sessions[w.pool[1][2]].sid)
                   ELSE [p EXCEPT !.cycles[w.pool[1][2]] = current_time,
                                  !.pool = heappush(@, <<current_time, w.pool[1][2]>>)]),
            LAMBDA g : gc_loop(g, current_time))

\* SessionPool.gc
gc(w) == IF w.pool = <<>> THEN w ELSE gc_loop(w, w.now)

\* SessionPool.heartbeat over the registered sessions
RECURSIVE heartbeat_loop(_, _, _)
heartbeat_loop(w, ids, io) ==
    IF ids = {} THEN w
    ELSE Then(CHOOSE i \in ids : TRUE,
              LAMBDA id :
                  Do(IF w.pool_sessions[id] = None THEN w
                     ELSE send_heartbeat(w, w.pool_sessions[id], io),
                     LAMBDA h : heartbeat_loop(h, ids \ {id}, io)))

heartbeat(w, io) == heartbeat_loop(w, SessionIds, io)

\* SessionPool.drain
RECURSIVE drain(_)
drain(w) ==
    IF w.pool = <<>> THEN w
    ELSE Do(Do([w EXCEPT !.pool = Tail(@)],
               LAMBDA p : IF ~closed(p.sessions[w.pool[1][2]])
                          THEN close(p, w.pool[1][2], 3000, "Go away!")
                          ELSE p),
            LAMBDA d : drain(d))

\* a stop that releases the pool without draining it
SessionPool_stop_undrained(w) ==
    IF w.stopping THEN w
    ELSE [w EXCEPT !.stopping = TRUE,
                   !.pool = <<>>,
                   !.cycles = [s \in SessionObjs |-> 0],
                   !.pool_sessions = [i \in SessionIds |-> None]]

\* SessionPool.stop: pool, cycles and sessions end as None, also when drain
\* raises
SessionPool_stop(w) ==
    IF w.stopping THEN w
    ELSE Then(Do([w EXCEPT !.stopping = TRUE], LAMBDA x : drain(x)),
              LAMBDA d : [d EXCEPT !.pool = <<>>,
                                   !.cycles = [s \in SessionObjs |-> 0],
                                   !.pool_sessions = [i \in SessionIds |-> None]])

---------------------------------------------------------------------------
(* Endpoint *)

\* the next session object, None when the model has no more
FreeSession(w) ==
    IF \E s \in SessionObjs : w.sessions[s].cls = "none"
    THEN CHOOSE s \in SessionObjs :
            /\ w.sessions[s].cls = "none"
            /\ \A r \in SessionObjs : r < s => w.sessions[r].cls # "none"
    ELSE None

\* BaseSession.__init__ + Session.__init__ (ExpiryMixin.__init__ sets the
\* expiry from the ttl), then BaseSession.bind(conn), which touches
NewSession(w, cls, session_id, ttl) ==
    [ sid |-> session_id, cls |-> cls, state |-> NEW_, close_reason |-> NoReason,
      send_transport |-> None, recv_transport |-> None, send_buffer |-> <<>>,
      expires_at |-> w.now + ttl, ttl |-> ttl, conn |-> TRUE, conn_info |-> "",
      callbacks |-> <<>>, states |-> <<NEW_>>, wire |-> <<>>, nsent |-> 0,
      failed |-> FALSE ]

\* the endpoint's session_pool is None: Endpoint.stop, the one caller of
\* SessionPool.stop, drops the pool it has stopped
NoPool(w) == w.stopping

\* Endpoint.create_session(session_id, register=True) making session object
\* s; exc when pool.add raises (the endpoint's session_pool is None once the
\* endpoint has stopped), and the session made is then garbage
create_session(w, s, session_id) ==
    IF NoPool(w) THEN Raise(w, "AttributeError")
    ELSE IF add_exc(w, session_id, NEW_) # ""
    THEN Raise(w, add_exc(w, session_id, NEW_))
    ELSE Do([w EXCEPT !.sessions[s] =
                 NewSession(w, "Session", session_id,
                            settings.heartbeat_delay + settings.heartbeat_timeout)],
            LAMBDA c : add(c, s))

\* whether the model can follow create_session: it needs a session object
\* unless the call raises
CanCreate(w, session_id) ==
    FreeSession(w) # None \/ NoPool(w) \/ add_exc(w, session_id, NEW_) # ""

\* RawWebSocketTransport.create_session: RawWebSocket('raw', 0), not pooled
Raw_create_session(w, s) ==
    [w EXCEPT !.sessions[s] = NewSession(w, "RawWebSocket", "raw", 0)]

\* Endpoint.get_session
get_session(w, session_id) == w.active_sessions[session_id]

\* Endpoint.stop
Endpoint_stop(w) ==
    IF ~w.started THEN w
    ELSE Then(Do([w EXCEPT !.started = FALSE], LAMBDA x : SessionPool_stop(x)),
              LAMBDA p : [p EXCEPT !.active_sessions = [i \in SessionIds |-> None]])

\* SessionPool.start: empty structures, and the two timers run
SessionPool_start(w) ==
    [w EXCEPT !.stopping = FALSE,
              !.pool_sessions = [i \in SessionIds |-> None],
              !.cycles = [s \in SessionObjs |-> 0],
              !.pool = <<>>,
              !.heartbeat_at = w.now]

\* Endpoint.start: started is set before session_pool.start() is called,
\* on a session_pool that is None after a stop
Endpoint_start(w) ==
    IF w.started THEN w
    ELSE Do([w EXCEPT !.started = TRUE],
            LAMBDA x : IF NoPool(x) THEN Raise(x, "AttributeError")
                       ELSE SessionPool_start(x))

---------------------------------------------------------------------------
(* BaseTransport: binding a request to a session *)

\* the next request handler object, None when the model has no more
FreeTransport(w) ==
    IF \E t \in TransportObjs : w.transports[t].kind = "none"
    THEN CHOOSE t \in TransportObjs :
            /\ w.transports[t].kind = "none"
            /\ \A r \in TransportObjs : r < t => w.transports[r].kind # "none"
    ELSE None

\* a handler object for a request from remote_ip (BaseTransport.initialize;
\* StreamingTransport.prepare sets amount_limit)
NewTransport(kind, remote_ip) ==
    [ kind |-> kind, session |-> None, finished |-> FALSE, connected |-> TRUE,
      ip |-> remote_ip,
      amount_limit |-> IF kind = "xhr_streaming" THEN settings.response_limit ELSE 0,
      out |-> <<>>, error |-> "" ]

\* a verify_session that lets every address through
verify_session_off(w, t, s) == [w |-> w, ok |-> TRUE]

\* BaseTransport.verify_session: [w, ok]
verify_session(w, t, s) ==
    IF settings.verify_ip /\ w.sessions[s].conn_info # w.transports[t].ip
    THEN [w |-> Transport_send(w, t, close_frame(2010, "IP session mismatch")),
          ok |-> FALSE]
    ELSE [w |-> w, ok |-> TRUE]

\* BaseTransport.send_open_frame; a no-op in RawWebSocketTransport.  The
\* write of the open frame raises when the socket does not take it.
send_open_frame(w, t, s, io) ==
    IF w.transports[t].kind = "rawwebsocket" THEN w
    ELSE IF IOFails(w, t, io) THEN Raise(w, "IOError")
    ELSE Do(Wire(w, s, t, proto_OPEN), LAMBDA x : Transport_send(x, t, proto_OPEN))

\* an end of bind_session that opens the session first and sends the open
\* frame afterwards
bind_session_bound_late(w, t, s, cb, io) ==
    Then(Do(SetT(w, t, "session", s),
            LAMBDA b : IF b.sessions[s].state = NEW_
                       THEN Do(open(b, s, cb, io),
                               LAMBDA o : send_open_frame(o, t, s, io))
                       ELSE b),
         LAMBDA w2 :
             IF w2.exc # "" THEN [w |-> w2, ok |-> FALSE]
             ELSE IF w2.transports[t].session = None THEN [w |-> w2, ok |-> FALSE]
             ELSE IF closed(w2.sessions[w2.transports[t].session])
             THEN [w |-> detach_session(w2, t), ok |-> FALSE]
             ELSE IF sendable(w2.transports[t].kind)
             THEN [w |-> flush(w2, w2.transports[t].session, io), ok |-> TRUE]
             ELSE [w |-> w2, ok |-> TRUE])

\* the end of BaseTransport.bind_session, from self.session = session on:
\* [w, ok]
bind_session_bound(w, t, s, cb, io) ==
    Then(Do(SetT(w, t, "session", s),
            LAMBDA b : IF b.sessions[s].state = NEW_
                       THEN Do(send_open_frame(b, t, s, io),
                               LAMBDA o : open(o, s, cb, io))
                       ELSE b),
         LAMBDA w2 :
             IF w2.exc # "" THEN [w |-> w2, ok |-> FALSE]
             ELSE IF w2.transports[t].session = None THEN [w |-> w2, ok |-> FALSE]
             ELSE IF closed(w2.sessions[w2.transports[t].session])
             THEN [w |-> detach_session(w2, t), ok |-> FALSE]
             ELSE IF sendable(w2.transports[t].kind)
             THEN [w |-> flush(w2, w2.transports[t].session, io), ok |-> TRUE]
             ELSE [w |-> w2, ok |-> TRUE])

\* a bind_session that closes the session when its slot is taken
bind_session_closing(w, t, s, cb, io) ==
    Then(attach_transport(w, s, t),
         LAMBDA a :
             IF a.exc = "AlreadyOpenedError"
             THEN [w |-> close([a EXCEPT !.exc = ""], s,
                               2010, "Another connection still open"),
                   ok |-> FALSE]
             ELSE bind_session_bound(a, t, s, cb, io))

\* the part of BaseTransport.bind_session after verify_session, from
\* session.attach_transport(self) on: [w, ok]
bind_session_attach(w, t, s, cb, io) ==
    Then(attach_transport(w, s, t),
         LAMBDA a :
             IF a.exc \in {"TransportAlreadySet", "AlreadyOpenedError"}
             THEN [w |-> send_close_frame([a EXCEPT !.exc = ""], t,
                            [code |-> 2010, reason |-> "Another connection still open"]),
                   ok |-> FALSE]
             ELSE IF a.exc = "SessionClosed"
             THEN [w |-> send_close_frame([a EXCEPT !.exc = ""], t,
                            [code |-> 3000, reason |-> "Go away!"]),
                   ok |-> FALSE]
             ELSE IF a.exc # "" THEN [w |-> a, ok |-> FALSE]
             ELSE IF a.sessions[s].state = CLOSING
             THEN [w |-> Do(Do(WireClose(a, s, t),
                               LAMBDA x : send_close_frame(x, t, a.sessions[s].close_reason)),
                            LAMBDA c : did_close(c, s)),
                   ok |-> FALSE]
             ELSE bind_session_bound(a, t, s, cb, io))

\* BaseTransport.bind_session: [w, ok]
bind_session(w, t, s, cb, io) ==
    Then(verify_session(w, t, s),
         LAMBDA v :
             IF ~v.ok THEN [w |-> v.w, ok |-> FALSE]
             ELSE IF closed(w.sessions[s])
             THEN [w |-> Do(WireClose(w, s, t),
                            LAMBDA x : send_close_frame(x, t, w.sessions[s].close_reason)),
                   ok |-> FALSE]
             ELSE bind_session_attach(w, t, s, cb, io))

\* an attach_session that creates the session whatever the transport
attach_session_any(w, t, session_id, cb, io) ==
    IF get_session(w, session_id) # None
    THEN bind_session(w, t, get_session(w, session_id), cb, io)
    ELSE Then(FreeSession(w),
              LAMBDA s :
                  Then(Do(create_session(w, s, session_id),
                          LAMBDA c : SetS(c, s, "conn_info", c.transports[t].ip)),
                       LAMBDA c : IF c.exc # "" THEN [w |-> c, ok |-> FALSE]
                                  ELSE bind_session(c, t, s, cb, io)))

\* BaseTransport.attach_session: [w, ok]
attach_session(w, t, session_id, cb, io) ==
    IF get_session(w, session_id) # None
    THEN bind_session(w, t, get_session(w, session_id), cb, io)
    ELSE IF ~sendable(w.transports[t].kind) THEN [w |-> w, ok |-> FALSE]
    ELSE Then(FreeSession(w),
              LAMBDA s :
                  Then(Do(create_session(w, s, session_id),
                          \* session.set_conn_info(self.get_conn_info())
                          LAMBDA c : SetS(c, s, "conn_info", c.transports[t].ip)),
                       LAMBDA c : IF c.exc # "" THEN [w |-> c, ok |-> FALSE]
                                  ELSE bind_session(c, t, s, cb, io)))

\* RequestHandler.finish: on_finish detaches the session
finish(w, t) ==
    IF w.transports[t].finished THEN w
    ELSE Do(safe_finish(w, t), LAMBDA f : detach_session(f, t))

\* the handler of transport t has returned or raised: an uncaught exception
\* is answered by Tornado with an error and the request is finished
EndRequest(w, t) ==
    IF w.exc = "" THEN w
    ELSE Then([w EXCEPT !.transports[t].error = w.exc, !.exc = ""],
              LAMBDA e : [finish(e, t) EXCEPT !.exc = ""])

---------------------------------------------------------------------------
(* The state after Endpoint.__init__ *)

Init ==
    /\ sessions = [s \in SessionObjs |-> NoSession]
    /\ transports = [t \in TransportObjs |-> NoTransport]
    /\ active_sessions = [i \in SessionIds |-> None]
    /\ pool_sessions = [i \in SessionIds |-> None]
    /\ cycles = [s \in SessionObjs |-> 0]
    /\ pool = <<>>
    /\ stopping = FALSE
    /\ started = TRUE
    /\ now = 1
    /\ heartbeat_at = 1

\* the handler is over: its world becomes the state
Commit(w) ==
    /\ sessions' = w.sessions
    /\ transports' = w.transports
    /\ active_sessions' = w.active_sessions
    /\ pool_sessions' = w.pool_sessions
    /\ cycles' = w.cycles
    /\ pool' = w.pool
    /\ stopping' = w.stopping
    /\ started' = w.started
    /\ now' = w.now
    /\ heartbeat_at' = w.heartbeat_at

\* the on_message callbacks session s has had
Dispatched(w, s) ==
    Cardinality({i \in DOMAIN w.sessions[s].callbacks :
                    w.sessions[s].callbacks[i] = "message"})

---------------------------------------------------------------------------
(* Request handlers *)

\* XhrPollingTransport.post / XhrStreamingTransport.post in world w, as
\* handler object t
SendTransport_post(w, t, kind, session_id, remote_ip, cb, io) ==
    Then(attach_session([w EXCEPT !.transports[t] = NewTransport(kind, remote_ip)],
                        t, session_id, cb, io),
         LAMBDA r : IF r.w.exc # "" THEN EndRequest(r.w, t)
                    ELSE IF ~r.ok THEN finish(r.w, t)
                    ELSE r.w)

SendRequest(kind, session_id, remote_ip, cb, io) ==
    \E w \in {World} :
        \E t \in {FreeTransport(w)} :
            /\ t # None
            /\ now < MaxTime
            /\ IF get_session(w, session_id) = None
               THEN remote_ip = ClientIp /\ CanCreate(w, session_id)
               ELSE cb = "none"   \* no callback runs
            /\ \E r \in {SendTransport_post(w, t, kind, session_id, remote_ip, cb, io)} :
                  Commit(r)

XhrPolling_post ==
    \E session_id \in ClientIds, remote_ip \in RemoteIps,
       cb \in AppChoices, io \in BOOLEAN :
        SendRequest("xhr", session_id, remote_ip, cb, io)

XhrStreaming_post ==
    \E session_id \in ClientIds, remote_ip \in RemoteIps,
       cb \in AppChoices, io \in BOOLEAN :
        SendRequest("xhr_streaming", session_id, remote_ip, cb, io)

\* SingleRecvTransport.post with a body of n messages in world w, as handler
\* object t, and the finish Tornado does when it returns
SingleRecvTransport_post(w, t, session_id, remote_ip, n, cb, io) ==
    Then(Then(attach_session([w EXCEPT !.transports[t] =
                                  NewTransport("xhr_send", remote_ip)],
                             t, session_id, cb, io),
              LAMBDA r :
                  IF r.w.exc # "" THEN r.w
                  ELSE IF ~r.ok THEN Raise(r.w, "HTTPError 404")
                  ELSE Then(dispatch(r.w, r.w.transports[t].session, n, cb, io),
                            LAMBDA d :
                                IF d.exc = "" THEN d
                                ELSE \* except: self.session.close(); raise HTTPError(500)
                                     IF d.transports[t].session = None
                                     THEN Raise(d, "AttributeError")
                                     ELSE Raise(close([d EXCEPT !.exc = ""],
                                                      d.transports[t].session,
                                                      3000, "Go away!"),
                                                "HTTPError 500"))),
         LAMBDA p : IF p.exc # "" THEN EndRequest(p, t) ELSE finish(p, t))

RecvRequest(session_id, remote_ip, n, cb, io) ==
    \E w \in {World} :
        \E t \in {FreeTransport(w)} :
            /\ t # None
            /\ now < MaxTime
            /\ IF get_session(w, session_id) = None
               THEN \* 404 whatever the body is
                    n = 1 /\ cb = "none" /\ io /\ remote_ip = ClientIp
               ELSE Dispatched(w, get_session(w, session_id)) + n <= MaxDispatch
            /\ cb # "send" => io   \* nothing is written
            /\ \E r \in {SingleRecvTransport_post(w, t, session_id, remote_ip,
                                                  n, cb, io)} :
                  Commit(r)

XhrSend_post ==
    \E session_id \in ClientIds, remote_ip \in RemoteIps, n \in 1..MaxDispatch,
       cb \in AppChoices, io \in BOOLEAN :
        RecvRequest(session_id, remote_ip, n, cb, io)

\* WebSocketTransport.open in world w, as handler object t and with session
\* object s at hand; an exception makes Tornado abort the connection
WebSocketTransport_open(w, t, s, session_id, remote_ip, cb) ==
    Then(Do(Do([w EXCEPT !.transports[t] = NewTransport("websocket", remote_ip)],
               LAMBDA x : create_session(x, s, session_id)),
            LAMBDA c : SetS(c, s, "conn_info", remote_ip)),
         LAMBDA c :
             IF c.exc # ""
             THEN [c EXCEPT !.transports[t].error = c.exc,
                            !.transports[t].connected = FALSE, !.exc = ""]
             ELSE Then(bind_session(c, t, s, cb, TRUE),
                       LAMBDA r :
                           IF r.w.exc # ""
                           THEN [r.w EXCEPT !.transports[t].error = r.w.exc,
                                            !.transports[t].connected = FALSE,
                                            !.exc = ""]
                           ELSE IF ~r.ok THEN safe_finish(r.w, t)
                           ELSE r.w))

WebSocket_open ==
    \E session_id \in ClientIds, cb \in AppChoices :
        \E w \in {World} :
            \E t \in {FreeTransport(w)}, s \in {FreeSession(w)} :
                /\ t # None
                /\ now < MaxTime
                /\ CanCreate(w, session_id)
                /\ \E r \in {WebSocketTransport_open(w, t, s, session_id, ClientIp, cb)} :
                      Commit(r)

\* RawWebSocketTransport.open in world w, as handler object t making session
\* object s
RawWebSocketTransport_open(w, t, s, remote_ip, cb) ==
    Then(Then(Do(Do([w EXCEPT !.transports[t] = NewTransport("rawwebsocket", remote_ip)],
                    LAMBDA x : Raw_create_session(x, s)),
                 LAMBDA c : SetS(c, s, "conn_info", remote_ip)),
              LAMBDA c : bind_session(c, t, s, cb, TRUE)),
         LAMBDA r :
             IF r.w.exc # ""
             THEN [r.w EXCEPT !.transports[t].error = r.w.exc,
                              !.transports[t].connected = FALSE, !.exc = ""]
             ELSE IF ~r.ok THEN safe_finish(r.w, t)
             ELSE r.w)

RawWebSocket_open ==
    \E cb \in AppChoices :
        \E w \in {World} :
            \E t \in {FreeTransport(w)}, s \in {FreeSession(w)} :
                /\ t # None
                /\ s # None
                /\ now < MaxTime
                /\ Cardinality({x \in TransportObjs :
                       w.transports[x].kind = "rawwebsocket"}) < MaxRawSockets
                /\ \E r \in {RawWebSocketTransport_open(w, t, s, ClientIp, cb)} :
                      Commit(r)

\* WebSocketTransport.on_message / RawWebSocketTransport.on_message with a
\* frame of n messages; a failed dispatch closes the socket
WebSocketTransport_on_message(w, t, n, cb) ==
    Then(dispatch(w, w.transports[t].session, n, cb, TRUE),
         LAMBDA d : IF d.exc # "" THEN safe_finish([d EXCEPT !.exc = ""], t) ELSE d)

WebSocket_on_message ==
    \E t \in TransportObjs, n \in 1..MaxDispatch, cb \in AppChoices :
        \E w \in {World} :
            /\ w.transports[t].kind \in {"websocket", "rawwebsocket"}
            /\ w.transports[t].connected
            /\ ~w.transports[t].finished
            /\ now < MaxTime
            /\ w.transports[t].session # None
            /\ w.transports[t].kind = "rawwebsocket" => n = 1
            /\ Dispatched(w, w.transports[t].session) + n <= MaxDispatch
            /\ \E r \in {WebSocketTransport_on_message(w, t, n, cb)} : Commit(r)

\* WebSocketTransport.on_close: the socket has closed
WebSocketTransport_on_close(w, t) ==
    IF w.transports[t].session # None
    THEN close(SetT(w, t, "connected", FALSE), w.transports[t].session,
               3000, "Go away!")
    ELSE SetT(w, t, "connected", FALSE)

WebSocket_on_close ==
    \E t \in TransportObjs :
        \E w \in {World} :
            /\ w.transports[t].kind \in {"websocket", "rawwebsocket"}
            /\ w.transports[t].connected
            /\ \E r \in {WebSocketTransport_on_close(w, t)} :
                  Commit([r EXCEPT !.exc = ""])

\* BaseTransport.on_connection_close
BaseTransport_on_connection_close(w, t) ==
    Do(Do(Do(SetT(w, t, "connected", FALSE),
             LAMBDA x : IF ~x.transports[t].finished /\ x.transports[t].session # None
                        THEN close(x, x.transports[t].session,
                                   1002, "Connection interrupted")
                        ELSE x),
          LAMBDA c : detach_session(c, t)),
       LAMBDA d : safe_finish(d, t))

\* the connection of a request that has not finished closes
on_connection_close ==
    \E t \in TransportObjs, raising \in BOOLEAN :
        \E w \in {[World EXCEPT !.raising = raising]} :
            /\ w.transports[t].kind \in {"xhr", "xhr_streaming"}
            /\ w.transports[t].connected
            /\ ~w.transports[t].finished
            /\ \E r \in {BaseTransport_on_connection_close(w, t)} :
                  Commit([r EXCEPT !.exc = ""])

---------------------------------------------------------------------------
(* The application, outside of a callback *)

\* the application has the connection of session s once on_open has run
Opened(w, s) ==
    /\ w.sessions[s].cls # "none"
    /\ \E i \in DOMAIN w.sessions[s].callbacks : w.sessions[s].callbacks[i] = "open"

\* conn.send(message)
App_send ==
    \E s \in SessionObjs, io \in BOOLEAN :
        \E w \in {World} :
            /\ Opened(w, s)
            /\ now < MaxTime
            /\ ~closed(w.sessions[s])
            /\ w.sessions[s].nsent < MaxSends
            \* whether the socket takes the write matters when one is made
            /\ ~io => w.sessions[s].send_transport # None
                      /\ IOFails(w, w.sessions[s].send_transport, io)
            /\ \E r \in {Connection_send(w, s, io)} : Commit([r EXCEPT !.exc = ""])

\* conn.close()
App_close ==
    \E s \in SessionObjs, raising \in BOOLEAN :
        \E w \in {[World EXCEPT !.raising = raising]} :
            /\ Opened(w, s)
            /\ now < MaxTime
            /\ ~closed(w.sessions[s])
            /\ \E r \in {Connection_close(w, s)} : Commit([r EXCEPT !.exc = ""])

---------------------------------------------------------------------------
(* Timers and shutdown *)

\* the instants the clock is read at: the start, a disconnect_delay later,
\* and the last one, a session's ttl after that
Clock == {1, 1 + settings.disconnect_delay, MaxTime}

Tick ==
    \E c \in Clock :
        /\ c > now
        /\ \E w \in {World} : Commit([w EXCEPT !.now = c])

\* the gc_periodic_callback fires
Gc_tick ==
    /\ ~stopping
    /\ pool # <<>>
    /\ \E w \in {World} : \E r \in {gc(w)} : Commit([r EXCEPT !.exc = ""])

\* the heartbeat_periodic_callback fires, a heartbeat_delay after it last did
Heartbeat_tick ==
    \E io \in BOOLEAN :
        \E w \in {World} :
            /\ ~stopping
            /\ now >= heartbeat_at + settings.heartbeat_delay
            /\ \E i \in SessionIds :
                  /\ w.pool_sessions[i] # None
                  /\ w.sessions[w.pool_sessions[i]].send_transport # None
            /\ \E r \in {heartbeat([w EXCEPT !.heartbeat_at = now], io)} :
                  Commit([r EXCEPT !.exc = ""])

\* Endpoint.stop()
Stop ==
    /\ started
    /\ \E w \in {World} : \E r \in {Endpoint_stop(w)} : Commit([r EXCEPT !.exc = ""])

\* Endpoint.start(), also through Server.start()
Start ==
    \E w \in {World} : \E r \in {Endpoint_start(w)} : Commit([r EXCEPT !.exc = ""])

\* the SockJS routes of the endpoint, its timers and its shutdown
Next ==
    \/ XhrPolling_post
    \/ XhrStreaming_post
    \/ XhrSend_post
    \/ WebSocket_open
    \/ WebSocket_on_message
    \/ WebSocket_on_close
    \/ on_connection_close
    \/ App_send
    \/ App_close
    \/ Tick
    \/ Gc_tick
    \/ Heartbeat_tick
    \/ Stop
    \/ Start

Spec == Init /\ [][Next]_vars

\* the raw websocket route of the endpoint, and its shutdown
RawNext ==
    \/ RawWebSocket_open
    \/ WebSocket_on_message
    \/ WebSocket_on_close
    \/ App_send
    \/ App_close
    \/ Stop

RawSpec == Init /\ [][RawNext]_vars

---------------------------------------------------------------------------
(* The polling route over unbounded time *)

\* The pool and the sessions compare their stamps with the clock and with
\* each other, never with a fixed instant: a run and the same run d seconds
\* later differ in nothing the program can see.  So when d seconds pass the
\* clock may keep its reading and every stamp move d seconds into the past
\* instead.  A stamp more than a heartbeat_delay old is as good as one
\* exactly that old: that is the oldest the program tells apart.

\* the reading the clock keeps
LiveEpoch == 1 + settings.heartbeat_delay

\* the stamp x, d seconds later
Aged(x, d) == IF x - d < LiveEpoch - settings.heartbeat_delay
              THEN LiveEpoch - settings.heartbeat_delay
              ELSE x - d

\* the heap with every stamp aged
RECURSIVE AgedHeap(_, _)
AgedHeap(heap, d) ==
    IF heap = <<>> THEN <<>>
    ELSE heappush(AgedHeap(Tail(heap), d), <<Aged(heap[1][1], d), heap[1][2]>>)

\* the world, d seconds later
Later(w, d) ==
    [w EXCEPT !.sessions = [s \in SessionObjs |->
                              [@[s] EXCEPT !.expires_at =
                                   IF @ = 0 THEN 0 ELSE Aged(@, d)]],
              !.cycles = [s \in SessionObjs |->
                            IF @[s] = 0 THEN 0 ELSE Aged(@[s], d)],
              !.pool = AgedHeap(@, d),
              !.heartbeat_at = Aged(@, d)]

\* time passes: a disconnect_delay or a heartbeat_delay
Elapse ==
    \E d \in {settings.disconnect_delay, settings.heartbeat_delay} :
        \E w \in {World} : \E r \in {Later(w, d)} : Commit(r)

LiveInit ==
    /\ sessions = [s \in SessionObjs |-> NoSession]
    /\ transports = [t \in TransportObjs |-> NoTransport]
    /\ active_sessions = [i \in SessionIds |-> None]
    /\ pool_sessions = [i \in SessionIds |-> None]
    /\ cycles = [s \in SessionObjs |-> 0]
    /\ pool = <<>>
    /\ stopping = FALSE
    /\ started = TRUE
    /\ now = LiveEpoch
    /\ heartbeat_at = LiveEpoch

LiveNext ==
    \/ XhrPolling_post
    \/ on_connection_close
    \/ App_close
    \/ Elapse
    \/ Gc_tick
    \/ Heartbeat_tick
    \/ Stop

\* Endpoint.start schedules gc every session_check_interval on the IOLoop,
\* which runs every callback that is due; and time passes
LiveSpec ==
    LiveInit /\ [][LiveNext]_vars /\ WF_vars(Gc_tick) /\ WF_vars(Elapse)

---------------------------------------------------------------------------
(* The session pool on its own: any registry the endpoint can have built,
   and the timer that collects it *)

\* the id session object s is registered under
PoolId(s) == "p" \o ToString(s)
PoolIds == {PoolId(s) : s \in SessionObjs}

\* when a pooled session expires: a disconnect_delay after the start, or
\* its ttl after the first or the last instant
PoolExpiries ==
    { 1 + settings.disconnect_delay,
      1 + settings.heartbeat_delay + settings.heartbeat_timeout,
      MaxTime + settings.heartbeat_delay + settings.heartbeat_timeout }

\* a session the pool holds: opened, and then closed by the application
\* (CLOSING with no send transport attached, CLOSED with one) or not
PooledSession(s, state, expires_at) ==
    [ NoSession EXCEPT
        !.sid = PoolId(s), !.cls = "Session", !.state = state,
        !.close_reason = IF state = OPEN THEN NoReason
                         ELSE [code |-> 3000, reason |-> "Go away!"],
        !.expires_at = expires_at,
        !.ttl = settings.heartbeat_delay + settings.heartbeat_timeout,
        !.conn = (state = OPEN),
        !.callbacks = IF state = OPEN THEN <<"open">> ELSE <<"open", "close">>,
        !.states = SubSeq(<<NEW_, OPEN, CLOSING, CLOSED>>, 1, state + 1),
        !.wire = IF state = CLOSED
                 THEN <<proto_OPEN, close_frame(3000, "Go away!")>>
                 ELSE <<proto_OPEN>> ]

\* the heap of the sessions in S, each pushed with its stamp
RECURSIVE Heap(_, _)
Heap(S, stamp) ==
    IF S = {} THEN <<>>
    ELSE heappush(Heap(S \ {CHOOSE s \in S : TRUE}, stamp),
                  <<stamp[CHOOSE s \in S : TRUE], CHOOSE s \in S : TRUE>>)

\* a started endpoint whose pool holds some sessions, each stamped when it
\* was added or last visited and not expired then
PoolInit ==
    \E n \in Clock, S \in SUBSET SessionObjs :
        \E stamp \in [S -> Clock], state \in [S -> {OPEN, CLOSING, CLOSED}],
           expires_at \in [S -> PoolExpiries] :
            /\ S # {}
            /\ \A s \in S : stamp[s] <= n /\ expires_at[s] > stamp[s]
            /\ sessions = [s \in SessionObjs |->
                            IF s \in S THEN PooledSession(s, state[s], expires_at[s])
                            ELSE NoSession]
            /\ transports = [t \in TransportObjs |-> NoTransport]
            /\ active_sessions = [i \in SessionIds \cup PoolIds |->
                                    IF \E s \in S : PoolId(s) = i /\ state[s] = OPEN
                                    THEN CHOOSE s \in S : PoolId(s) = i
                                    ELSE None]
            /\ pool_sessions = [i \in SessionIds \cup PoolIds |->
                                  IF \E s \in S : PoolId(s) = i
                                  THEN CHOOSE s \in S : PoolId(s) = i
                                  ELSE None]
            /\ cycles = [s \in SessionObjs |-> IF s \in S THEN stamp[s] ELSE 0]
            /\ pool = Heap(S, stamp)
            /\ stopping = FALSE
            /\ started = TRUE
            /\ now = n
            /\ heartbeat_at = n

\* the gc_periodic_callback, and time passing
PoolNext ==
    \/ Gc_tick
    \/ Tick

PoolSpec == PoolInit /\ [][PoolNext]_vars

---------------------------------------------------------------------------
(* TransportMixin on its own: one session, any handlers, and callers that
   attach and detach them *)

\* the transport classes a handler can be of
SlotKinds == {"xhr", "xhr_streaming", "xhr_send", "websocket"}

\* the session the handlers are attached to and detached from
SlotSession == 1

\* an open, registered session whose slots hold handlers of the matching
\* capability (a websocket in both or in neither), among handlers of any
\* class whose requests are running
SlotInit ==
    \E kind \in [TransportObjs -> SlotKinds],
       snd \in TransportObjs \cup {None}, rcv \in TransportObjs \cup {None} :
        /\ snd # None => sendable(kind[snd])
        /\ rcv # None => recvable(kind[rcv])
        /\ \A t \in TransportObjs : kind[t] = "websocket" => (snd = t <=> rcv = t)
        /\ sessions = [s \in SessionObjs |->
                         IF s = SlotSession
                         THEN [PooledSession(s, OPEN, 1 + settings.heartbeat_delay
                                                        + settings.heartbeat_timeout)
                                 EXCEPT !.sid = "s1", !.send_transport = snd,
                                        !.recv_transport = rcv]
                         ELSE NoSession]
        /\ transports = [t \in TransportObjs |->
                           [NewTransport(kind[t], ClientIp) EXCEPT
                              !.session = IF t \in {snd, rcv} THEN SlotSession
                                          ELSE None]]
        /\ active_sessions = [i \in SessionIds |->
                                IF i = "s1" THEN SlotSession ELSE None]
        /\ pool_sessions = [i \in SessionIds |->
                              IF i = "s1" THEN SlotSession ELSE None]
        /\ cycles = [s \in SessionObjs |-> IF s = SlotSession THEN 1 ELSE 0]
        /\ pool = << <<1, SlotSession>> >>
        /\ stopping = FALSE
        /\ started = TRUE
        /\ now = 1
        /\ heartbeat_at = 1

\* session.attach_transport(t), whatever it raises caught by the caller
Slot_attach ==
    \E t \in TransportObjs :
        \E r \in {attach_transport(World, SlotSession, t)} :
            Commit([r EXCEPT !.exc = ""])

\* session.detach_transport(t), whatever it raises caught by the caller
Slot_detach ==
    \E t \in TransportObjs :
        \E r \in {detach_transport(World, SlotSession, t)} :
            Commit([r EXCEPT !.exc = ""])

SlotNext ==
    \/ Slot_attach
    \/ Slot_detach

SlotSpec == SlotInit /\ [][SlotNext]_vars

---------------------------------------------------------------------------
(* The session pool driven by its callers: add, remove, the gc timer and
   stop, on any registry the endpoint can have built *)

\* SessionPool.add of a session the caller has just made for session_id,
\* in the given state; the caller drops the session when add raises
SessionPool_add(w, s, session_id, state) ==
    Then(add([w EXCEPT !.sessions[s] =
                  [NewSession(w, "Session", session_id,
                              settings.heartbeat_delay + settings.heartbeat_timeout)
                   EXCEPT !.state = state]], s),
         LAMBDA r : IF r.exc # ""
                    THEN [r EXCEPT !.sessions[s] = NoSession, !.exc = ""]
                    ELSE r)

Pool_add(session_id, state) ==
    \E w \in {World} :
        \E s \in {FreeSession(w)} :
            /\ s # None
            /\ \E r \in {SessionPool_add(w, s, session_id, state)} : Commit(r)

\* SessionPool.remove(session_id); the registry of a stopped pool is None
Pool_remove(session_id) ==
    \E w \in {World} :
        \E r \in {IF w.stopping THEN Raise(w, "AttributeError")
                  ELSE remove(w, session_id)} : Commit([r EXCEPT !.exc = ""])

RegistryNext ==
    \/ \E session_id \in PoolIds, state \in {NEW_, OPEN} : Pool_add(session_id, state)
    \/ \E session_id \in PoolIds : Pool_remove(session_id)
    \/ Gc_tick
    \/ Tick
    \/ Stop

RegistrySpec == PoolInit /\ [][RegistryNext]_vars

---------------------------------------------------------------------------

(* The properties *)

\* the session objects that exist
Live == {s \in SessionObjs : sessions[s].cls # "none"}

\* C1: the callbacks the application's connection of a session has seen are
\* on_open at most once, then on_message any number of times, then on_close
\* at most once; on_close only after on_open, no on_message before on_open
\* or after on_close.
C1_CallbackOrder ==
    \A s \in Live :
        \A i \in DOMAIN sessions[s].callbacks :
            /\ sessions[s].callbacks[i] = "open" => i = 1
            /\ sessions[s].callbacks[i] = "message" =>
                  /\ i > 1
                  /\ sessions[s].callbacks[1] = "open"
                  /\ \A j \in 1..i : sessions[s].callbacks[j] # "close"
            /\ sessions[s].callbacks[i] = "close" =>
                  /\ i > 1
                  /\ i = Len(sessions[s].callbacks)
                  /\ sessions[s].callbacks[1] = "open"

\* the steps of the state machine: one state forward, or NEW to CLOSING
StateSteps ==
    {<<NEW_, OPEN>>, <<OPEN, CLOSING>>, <<CLOSING, CLOSED>>, <<NEW_, CLOSING>>}

\* C2: the values assigned to a session's state, in the order they were
\* assigned, start at NEW and go on by the steps NEW -> OPEN -> CLOSING ->
\* CLOSED or NEW -> CLOSING: never to an earlier state, never out of CLOSED.
C2_StateAdvances ==
    \A s \in Live :
        /\ sessions[s].states[1] = NEW_
        /\ sessions[s].state = sessions[s].states[Len(sessions[s].states)]
        /\ \A i \in 1..(Len(sessions[s].states) - 1) :
              <<sessions[s].states[i], sessions[s].states[i + 1]>> \in StateSteps

\* a session that went through every state
C2_Witness ==
    \E s \in Live : sessions[s].states = <<NEW_, OPEN, CLOSING, CLOSED>>

\* a session that was closed before it was opened
C2_SkipsOpen ==
    \E s \in Live : sessions[s].states = <<NEW_, CLOSING>>

\* C3: a session is the entry of active_sessions under its session_id if and
\* only if its state is OPEN.
C3_ActiveIffOpen ==
    \A s \in Live :
        active_sessions[sessions[s].sid] = s <=> sessions[s].state = OPEN

---------------------------------------------------------------------------
(* What the client of a session has been delivered *)

\* the payloads the application can have passed to send
Sent(s) == {Messages[k] : k \in 1..sessions[s].nsent}

RECURSIVE SeqsOf(_, _)
\* the sequences over S of length 1..n
SeqsOf(S, n) ==
    IF n = 0 THEN {}
    ELSE SeqsOf(S, n - 1) \cup
         {Append(q, m) : q \in SeqsOf(S, n - 1) \cup {<<>>}, m \in S}

\* the payload lists a frame or a buffer entry of session s can carry: more
\* than the session can have been sent, so that a copy shows
Payloads(s) == {q \in SeqsOf(Sent(s), MaxSends + 1) : Len(q) <= sessions[s].nsent + 1}

\* the JSON text of a list of payloads, without the brackets
Joined(q) == join([i \in 1..Len(q) |-> encode(q[i])])

\* the payloads of a buffer entry, read as the client's JSON parser would
\* read it inside an array frame
EntryPayloads(s, entry) ==
    IF \E q \in Payloads(s) : Joined(q) = entry
    THEN CHOOSE q \in Payloads(s) : Joined(q) = entry
    ELSE <<>>

\* the payloads of a frame: those of an array frame, none for another frame
FramePayloads(s, frame) ==
    IF \E q \in Payloads(s) : "a[" \o Joined(q) \o "]" = frame
    THEN CHOOSE q \in Payloads(s) : "a[" \o Joined(q) \o "]" = frame
    ELSE <<>>

\* the frames a client can be sent that carry no payload
ControlFrames ==
    {proto_OPEN, "h"} \cup
    {close_frame(c[1], c[2]) :
        c \in {<<3000, "Go away!">>, <<1002, "Connection interrupted">>,
               <<2010, "Another connection still open">>,
               <<2010, "IP session mismatch">>}}

RECURSIVE Flatten(_, _, _)
\* the payloads of the frames (F = FramePayloads) or buffer entries
\* (F = EntryPayloads) of session s, in order
Flatten(s, F(_, _), frames) ==
    IF frames = <<>> THEN <<>>
    ELSE F(s, Head(frames)) \o Flatten(s, F, Tail(frames))

\* the payloads the client of session s has received, in order
Delivered(s) == Flatten(s, FramePayloads, sessions[s].wire)

\* the payloads waiting in the buffer of session s, in order
Buffered(s) == Flatten(s, EntryPayloads, sessions[s].send_buffer)

\* the index of payload m in the order the application sent them
SendIndex(m) == CHOOSE k \in 1..Len(Messages) : Messages[k] = m

\* how often m occurs in q
Count(q, m) == Cardinality({i \in DOMAIN q : q[i] = m})

\* the pooled sessions (a RawWebSocket frames nothing)
Framed == {s \in Live : sessions[s].cls = "Session"}

\* every frame of a session's wire is one the client can read
WireReadable ==
    \A s \in Framed :
        \A i \in DOMAIN sessions[s].wire :
            \/ sessions[s].wire[i] \in ControlFrames
            \/ FramePayloads(s, sessions[s].wire[i]) # <<>>

\* C4: the payloads delivered to the client of a session arrive in the order
\* they were passed to send.
C4_DeliveredInOrder ==
    \A s \in Framed :
        \A i, j \in DOMAIN Delivered(s) :
            i < j => SendIndex(Delivered(s)[i]) < SendIndex(Delivered(s)[j])

\* C5: a payload passed to send on an OPEN session is delivered in exactly
\* one array frame: never twice, and while the session is open it is either
\* delivered or still waiting in the buffer.
C5_DeliveredOnce ==
    \A s \in Framed :
        \A m \in Sent(s) :
            /\ Count(Delivered(s), m) <= 1
            /\ sessions[s].state = OPEN =>
                  Count(Delivered(s), m) + Count(Buffered(s), m) = 1

---------------------------------------------------------------------------
(* Requests as steps *)

\* the handler object the next request runs as
NextTransport == FreeTransport(World)

\* session s is the one requests for its id are routed to
Routed(s) == active_sessions[sessions[s].sid] = s

\* the step is a poll (xhr or xhr_streaming) from the client of session s for
\* the id of s
Poll(s, kind, cb, io) ==
    /\ NextTransport # None
    /\ transports'[NextTransport].kind = kind
    /\ SendRequest(kind, sessions[s].sid, sessions[s].conn_info, cb, io)

\* the step is an xhr_send of one message from the client of session s for
\* the id of s
Post(s) ==
    /\ NextTransport # None
    /\ transports'[NextTransport].kind = "xhr_send"
    /\ RecvRequest(sessions[s].sid, sessions[s].conn_info, 1, "none", TRUE)

SendKinds == {"xhr", "xhr_streaming"}

\* C6: a poll that binds to an OPEN session with a non-empty buffer is
\* written all buffered payloads as one array frame, joined in buffer order,
\* and leaves the buffer empty.
C6_FlushOnBind ==
    [][\A s \in Framed, kind \in SendKinds, io \in BOOLEAN :
          ( /\ Routed(s)
            /\ sessions[s].send_transport = None
            /\ sessions[s].send_buffer # <<>>
            /\ Poll(s, kind, "none", io) )
          => /\ transports'[NextTransport].out =
                  <<encode_frame(kind, "a[" \o join(sessions[s].send_buffer) \o "]")>>
             /\ sessions'[s].send_buffer = <<>>]_vars

\* on_open has fired on the connection of session object s, on_close has not
OpenedNotClosed(s) ==
    /\ sessions[s].cls # "none"
    /\ \E i \in DOMAIN sessions[s].callbacks : sessions[s].callbacks[i] = "open"
    /\ \A i \in DOMAIN sessions[s].callbacks : sessions[s].callbacks[i] # "close"

\* on_close has fired on the connection of session object s
CloseFired(s) ==
    \E i \in DOMAIN sessions[s].callbacks : sessions[s].callbacks[i] = "close"

\* no request is bound to session object s
Detached(s) ==
    sessions[s].send_transport = None /\ sessions[s].recv_transport = None

\* C7 as stated: with gc ticking and time passing, a session whose on_open
\* has fired has its on_close fire, exactly once.
C7_OpenedThenClosed ==
    /\ [](\A s \in Live : Count(sessions[s].callbacks, "close") <= 1)
    /\ \A s \in SessionObjs : OpenedNotClosed(s) ~> CloseFired(s)

\* C7, amended: with gc ticking and time passing, a session whose on_open has
\* fired and that no request is bound to has its on_close fire, exactly once,
\* unless a request binds to it again: a client that keeps polling keeps its
\* session, and it alone.
C7_AbandonedThenClosed ==
    /\ [](\A s \in Live : Count(sessions[s].callbacks, "close") <= 1)
    /\ \A s \in SessionObjs :
          (OpenedNotClosed(s) /\ Detached(s)) ~> (CloseFired(s) \/ ~Detached(s))

\* gc has closed an opened session that nothing was bound to and whose expiry
\* had passed
C7_Witness ==
    \E s \in Live :
        /\ sessions[s].callbacks = <<"open", "close">>
        /\ sessions[s].close_reason = [code |-> 3000, reason |-> "Go away!"]
        /\ sessions[s].expires_at <= now
        /\ ~stopping

\* the frame a transport that finds its slot taken is answered with
AnotherConnection == close_frame(2010, "Another connection still open")

\* the slots of session s, and the transports in them, are as they were
SlotsKept(s) ==
    /\ sessions'[s].send_transport = sessions[s].send_transport
    /\ sessions'[s].recv_transport = sessions[s].recv_transport
    /\ \A o \in {sessions[s].send_transport, sessions[s].recv_transport} \ {None} :
          /\ transports'[o] = transports[o]
          /\ transports[o].session = s

\* the request of this step was refused with the frame for a taken slot
Refused(kind) ==
    /\ transports'[NextTransport].kind = kind
    /\ transports'[NextTransport].session = None
    /\ transports'[NextTransport].finished
    /\ transports'[NextTransport].out = <<encode_frame(kind, AnotherConnection)>>

\* BaseSession.attach_transport raises AlreadyOpenedError for a new handler
\* of this kind, in the state as it is
AttachRaises(s, kind) ==
    attach_transport(
        [World EXCEPT !.transports[NextTransport] = NewTransport(kind, ClientIp)],
        s, NextTransport).exc = "AlreadyOpenedError"

\* TransportMixin.attach_transport, whatever the slots hold and whatever the
\* transport can do: with a slot it needs taken it raises and leaves both
\* slots as they were
AttachRestores ==
    \A send_transport, recv_transport \in TransportObjs \cup {None},
       t \in TransportObjs, snd, rcv \in BOOLEAN :
        (snd /\ send_transport # None) \/ (rcv /\ recv_transport # None) =>
            TransportMixin_attach_transport(send_transport, recv_transport, t, snd, rcv)
              = [send |-> send_transport, recv |-> recv_transport,
                 exc |-> "TransportAlreadySet"]

\* C8: a request whose transport needs a slot of the session that is taken
\* is refused: attach_transport raises AlreadyOpenedError, both slots keep
\* their values (for a transport of both capabilities with only its second
\* slot taken too), the transport in the slot stays bound, and the request is
\* answered c[2010,"Another connection still open"].
C8_SlotTaken ==
    [][ /\ AttachRestores
        /\ \A s \in Live, kind \in SendKinds, io \in BOOLEAN :
              ( /\ Routed(s)
                /\ sessions[s].send_transport # None
                /\ Poll(s, kind, "none", io) )
              => AttachRaises(s, kind) /\ SlotsKept(s) /\ Refused(kind)
        /\ \A s \in Live :
              (Routed(s) /\ sessions[s].recv_transport # None /\ Post(s))
              => AttachRaises(s, "xhr_send") /\ SlotsKept(s) /\ Refused("xhr_send")
      ]_vars

\* a poll was refused while another was waiting
C8_Witness ==
    \E s \in Live, t, u \in TransportObjs :
          /\ sessions[s].send_transport = t
          /\ transports[t].kind = "xhr"
          /\ transports[u].kind \in SendKinds
          /\ transports[u].out = <<encode_frame(transports[u].kind, AnotherConnection)>>

\* an xhr_send was refused by a session whose slots a websocket holds
C8_RecvTaken ==
    \E s \in Live, t, u \in TransportObjs :
        /\ sessions[s].recv_transport = t
        /\ transports[t].kind = "websocket"
        /\ transports[u].kind = "xhr_send"
        /\ transports[u].out = <<AnotherConnection>>

\* the step is a request of the client of s for a slot of s that is taken
SlotConflict(s) ==
    /\ Routed(s)
    /\ \/ /\ sessions[s].send_transport # None
          /\ \E kind \in SendKinds, io \in BOOLEAN : Poll(s, kind, "none", io)
       \/ /\ sessions[s].recv_transport # None
          /\ Post(s)

\* C9 as stated: a request for a taken slot closes the session, which enters
\* CLOSING with the close reason 2010 "Another connection still open".
C9_ConflictCloses ==
    [][\A s \in Live :
          SlotConflict(s) =>
              /\ sessions'[s].state = CLOSING
              /\ sessions'[s].close_reason =
                    [code |-> 2010, reason |-> "Another connection still open"]]_vars

\* C9, amended: a request for a taken slot leaves the session as it is: OPEN,
\* routed, with no close reason and no on_close callback; the frame
\* c[2010,...] goes to the request, not to the session.
C9_ConflictKeepsOpen ==
    [][\A s \in Live :
          SlotConflict(s) =>
              /\ sessions[s].state = OPEN
              /\ sessions'[s].state = OPEN
              /\ sessions'[s].close_reason = NoReason
              /\ sessions'[s].callbacks = sessions[s].callbacks
              /\ sessions'[s].wire = sessions[s].wire
              /\ active_sessions' = active_sessions]_vars

\* a request was refused for a taken slot and the session is open
C9_Witness ==
    \E s \in Live, t \in TransportObjs :
        /\ sessions[s].state = OPEN
        /\ Routed(s)
        /\ sessions[s].send_transport \notin {None, t}
        /\ transports[t].out = <<encode_frame(transports[t].kind, AnotherConnection)>>

\* C10: a poll for the id of a session that is CLOSING with no send transport
\* is answered with the close frame of the session's close_reason, and the
\* session is CLOSED after it.
C10_CloseFrameOnNextPoll ==
    [][\A s \in Framed, kind \in SendKinds, cb \in AppChoices, io \in BOOLEAN :
          ( /\ sessions[s].state = CLOSING
            /\ sessions[s].send_transport = None
            /\ Poll(s, kind, cb, io) )
          => /\ transports'[NextTransport].out =
                  <<encode_frame(kind, close_frame(sessions[s].close_reason.code,
                                                   sessions[s].close_reason.reason))>>
             /\ sessions'[s].state = CLOSED]_vars

\* a new request of the given kind from the session's own address, bound to
\* session object s: the result [w, ok] of bind_session
Bound(s, kind) ==
    bind_session([World EXCEPT !.transports[NextTransport] =
                                   NewTransport(kind, sessions[s].conn_info)],
                 NextTransport, s, "none", TRUE)

GoAway == close_frame(3000, "Go away!")

\* a session object in the CLOSED state that the pool still holds
ClosedHeld(s) ==
    /\ sessions[s].state = CLOSED
    /\ pool_sessions[sessions[s].sid] = s
    /\ NextTransport # None

\* C11: a transport that binds to a session in the CLOSED state is not
\* attached, the session's slots stay as they were, and the transport is
\* answered with c[3000,"Go away!"] whatever the session's close_reason is.
C11_ClosedGoAway ==
    \A s \in Live, kind \in SendKinds :
        ClosedHeld(s) =>
            \A b \in {Bound(s, kind)} :
                /\ ~b.ok
                /\ b.w.transports[NextTransport].session = None
                /\ b.w.sessions[s].send_transport = sessions[s].send_transport
                /\ b.w.sessions[s].recv_transport = sessions[s].recv_transport
                /\ b.w.transports[NextTransport].out = <<encode_frame(kind, GoAway)>>

\* the same but for the frame: the bind is refused and the slots are kept
C11_ClosedRefused ==
    \A s \in Live, kind \in SendKinds :
        ClosedHeld(s) =>
            \A b \in {Bound(s, kind)} :
                /\ ~b.ok
                /\ b.w.transports[NextTransport].session = None
                /\ b.w.sessions[s].send_transport = sessions[s].send_transport
                /\ b.w.sessions[s].recv_transport = sessions[s].recv_transport
                /\ b.w.transports[NextTransport].out =
                       <<encode_frame(kind, close_frame(sessions[s].close_reason.code,
                                                        sessions[s].close_reason.reason))>>

\* session s enters CLOSING in this step and the pool holds it afterwards
EntersClosing(s) ==
    /\ sessions[s].state \in {NEW_, OPEN}
    /\ sessions'[s].state = CLOSING
    /\ pool_sessions'[sessions[s].sid] = s

\* C12: a session that enters CLOSING at time T stays registered in the pool
\* until at least T + disconnect_delay: a gc tick at any time before that
\* leaves it in the registry.
C12_ClosingKeptForDelay ==
    [][\A s \in Live :
          EntersClosing(s) =>
              \A d \in 0 .. (settings.disconnect_delay - 1) :
                  \A r \in {gc([World' EXCEPT !.now = now' + d])} :
                      r.pool_sessions[sessions[s].sid] = s]_vars

\* a transport detaches from session s in this step: one that was attached
\* leaves its slot, or a poll for the open session is answered with the
\* session's buffered messages and finishes
Detaches(s) ==
    \/ sessions[s].send_transport # None /\ sessions'[s].send_transport = None
    \/ sessions[s].recv_transport # None /\ sessions'[s].recv_transport = None
    \/ /\ Routed(s)
       /\ sessions[s].state = OPEN
       /\ sessions[s].send_transport = None
       /\ \E cb \in AppChoices, io \in BOOLEAN : Poll(s, "xhr", cb, io)
       /\ transports'[NextTransport].out # <<>>
       /\ transports'[NextTransport].session = None

\* C13: after a transport detaches from a session, the session's expires_at
\* is the detach time plus disconnect_delay when the operation that caused
\* the detach has completed.
C13_DetachSetsExpiry ==
    [][\A s \in Live :
          Detaches(s) => sessions'[s].expires_at = now' + settings.disconnect_delay]_vars

\* the detaches that keep the disconnect_delay: those of a session that is
\* closed by the end of the step
C13_ClosedDetachSetsExpiry ==
    [][\A s \in Live :
          (Detaches(s) /\ sessions'[s].state # OPEN)
          => sessions'[s].expires_at = now' + settings.disconnect_delay]_vars

\* the session objects and the clock as they are, freed objects included
Held == [sessions |-> sessions, now |-> now]

\* C14: has_expired is monotone per session: once it has returned true it
\* returns true at every later time, whatever operations are applied in
\* between.
C14_ExpiredStaysExpired ==
    [][\A s \in Live :
          (~SessionGarbage(s) /\ has_expired(Held, s, now))
          => has_expired(Held', s, now')]_vars

\* C14, amended: has_expired stays true while nothing touches the session,
\* and for a closed session it is true at every time from then on, whatever
\* is applied to it.
C14_ClosedStaysExpired ==
    [][\A s \in Live :
          /\ (~SessionGarbage(s) /\ has_expired(Held, s, now)
                /\ sessions'[s] = sessions[s])
             => has_expired(Held', s, now')
          /\ (~SessionGarbage(s) /\ closed(sessions[s]))
             => /\ has_expired(Held, s, now)
                /\ \A t \in Clock : t >= now' => has_expired(Held', s, t)]_vars

\* a closed session the pool still holds, whose expires_at lies ahead
C14_Witness ==
    \E s \in Live :
        /\ closed(sessions[s])
        /\ pool_sessions[sessions[s].sid] = s
        /\ sessions[s].expires_at > now

\* a step that is no request: a timer fires, time passes, the application
\* acts on its connection, or the endpoint stops
NoRequest == Tick \/ Gc_tick \/ Heartbeat_tick \/ Stop \/ App_send \/ App_close

\* an open polled session nothing is attached to: its last poll has returned
Unattended(s) ==
    /\ Routed(s)
    /\ sessions[s].cls = "Session"
    /\ sessions[s].send_transport = None
    /\ sessions[s].recv_transport = None

\* C15: with heartbeat_delay=25, heartbeat_timeout=5, disconnect_delay=5, a
\* session whose poll returned at T0 and that sees no further request is
\* closed and gone from get_session after the first gc tick at a time
\* >= T0+30: when the poll has returned expires_at is at most 30 later,
\* no step but a request moves it forward, and a gc tick at or after
\* expires_at closes the session and unroutes it.
C15_UnattendedReaped ==
    [][\A s \in Live :
          Unattended(s) =>
              /\ sessions[s].expires_at # 0
              /\ sessions[s].expires_at
                    <= now + settings.heartbeat_delay + settings.heartbeat_timeout
              /\ NoRequest => sessions'[s].expires_at <= sessions[s].expires_at
              /\ (Gc_tick /\ now >= sessions[s].expires_at)
                 => /\ closed(sessions'[s])
                    /\ sessions'[s].callbacks = Append(sessions[s].callbacks, "close")
                    /\ pool_sessions'[sessions[s].sid] = None
                    /\ get_session(World', sessions[s].sid) = None]_vars

\* a polled session the gc has reaped at its expiry: the poll that opened
\* it returned at time 1 + disconnect_delay, nothing came after it
C15_Witness ==
    \E s \in Live :
        /\ sessions[s].callbacks = <<"open", "close">>
        /\ sessions[s].wire = <<"o">>
        /\ sessions[s].expires_at = now
        /\ sessions[s].close_reason = [code |-> 3000, reason |-> "Go away!"]
        /\ pool_sessions[sessions[s].sid] = None
        /\ ~stopping

\* C16: sessions created by the WebSocket transport are never registered in
\* the session pool, so opening a SockJS WebSocket for a session id is never
\* refused because a session with that id is already registered.
C16_WebSocketUnpooled ==
    \A t \in TransportObjs :
        transports[t].kind = "websocket" =>
            /\ transports[t].error = ""
            /\ \A s \in Live :
                  transports[t].session = s =>
                      /\ pool_sessions[sessions[s].sid] # s
                      /\ cycles[s] = 0
                      /\ \A i \in DOMAIN pool : pool[i][2] # s

\* the first half alone: no websocket session is in the pool's registry
C16_NotRegistered ==
    \A t \in TransportObjs, s \in Live :
        (transports[t].kind = "websocket" /\ transports[t].session = s)
        => pool_sessions[sessions[s].sid] # s

\* the second half alone: no websocket open is refused
C16_NeverRefused ==
    \A t \in TransportObjs :
        transports[t].kind = "websocket" => transports[t].error = ""

\* the application sends the next payload on session s in this step
Sends(s) ==
    /\ sessions'[s].nsent = sessions[s].nsent + 1
    /\ App_send

\* C17: with immediate_flush false, send() never writes to the send
\* transport: it appends the payload to the buffer and writes nothing.
C17_BatchedSendBuffers ==
    [][\A s \in Framed :
          (~settings.immediate_flush /\ Sends(s))
          => /\ sessions'[s].send_buffer =
                    Append(sessions[s].send_buffer,
                           encode(Messages[sessions'[s].nsent]))
             /\ sessions'[s].wire = sessions[s].wire
             /\ \A t \in TransportObjs :
                    sessions[s].send_transport = t
                    => transports'[t].out = transports[t].out]_vars

\* what send() does whatever immediate_flush is: it buffers only when no
\* send transport is attached
C17_SendBuffersWhenDetached ==
    [][\A s \in Framed :
          (Sends(s) /\ sessions[s].send_transport = None)
          => /\ sessions'[s].send_buffer =
                    Append(sessions[s].send_buffer,
                           encode(Messages[sessions'[s].nsent]))
             /\ sessions'[s].wire = sessions[s].wire]_vars

\* an open session with an HTTP response attached as its send transport
Streaming(s) ==
    /\ sessions[s].state = OPEN
    /\ sessions[s].send_transport # None
    /\ transports[sessions[s].send_transport].kind \in SendKinds

\* C18: an IOError raised by a write to the send transport never escapes
\* send, flush or send_heartbeat, and after it the next send on the session
\* appends to the buffer instead of writing to that transport.
C18_IOErrorMarksUnusable ==
    \A s \in Framed :
        Streaming(s) =>
            \A w1 \in {send(World, s, Messages[1], FALSE)} :
                /\ w1.exc = ""
                /\ flush(w1, s, FALSE).exc = ""
                /\ send_heartbeat(World, s, FALSE).exc = ""
                /\ \A w2 \in {send(w1, s, Messages[2], TRUE)} :
                      /\ w2.sessions[s].send_buffer =
                             Append(w1.sessions[s].send_buffer, encode(Messages[2]))
                      /\ w2.transports[sessions[s].send_transport].out =
                             w1.transports[sessions[s].send_transport].out

\* the first half alone: the IOError is swallowed, the payload is buffered
\* and the transport stays in its slot
C18_IOErrorContained ==
    \A s \in Framed :
        Streaming(s) =>
            \A w1 \in {send(World, s, Messages[1], FALSE)} :
                /\ w1.exc = ""
                /\ flush(w1, s, FALSE).exc = ""
                /\ send_heartbeat(World, s, FALSE).exc = ""
                /\ w1.sessions[s].send_buffer =
                       Append(sessions[s].send_buffer, encode(Messages[1]))
                /\ w1.sessions[s].send_transport = sessions[s].send_transport

\* the session object the next create_session makes
NextSession == FreeSession(World)

\* the first bind of session id over an HTTP transport, the application's
\* on_open raising: the request of this step
OpenRaises(id, kind, io) ==
    /\ NextTransport # None
    /\ NextSession # None
    /\ get_session(World, id) = None
    /\ transports'[NextTransport].kind = kind
    /\ SendRequest(kind, id, ClientIp, "raise", io)
    /\ sessions'[NextSession].callbacks = <<"open">>

\* an xhr_send for the open session s, the application's on_message raising
MessageRaises(s, n) ==
    /\ Routed(s)
    /\ NextTransport # None
    /\ transports'[NextTransport].kind = "xhr_send"
    /\ RecvRequest(sessions[s].sid, sessions[s].conn_info, n, "raise", TRUE)
    /\ Len(sessions'[s].callbacks) > Len(sessions[s].callbacks)

\* session object s is closed and no longer routed, after the step
ClosedAfter(s) ==
    /\ sessions'[s].state \in {CLOSING, CLOSED}
    /\ \A i \in SessionIds : active_sessions'[i] # s

\* C19: an exception thrown by on_open during the first bind, or by
\* on_message during dispatch, always ends with the session closed and
\* removed from active_sessions.
C19_CallbackRaiseCloses ==
    [][/\ \A id \in ClientIds, kind \in SendKinds, io \in BOOLEAN :
             OpenRaises(id, kind, io) => ClosedAfter(NextSession)
       /\ \A s \in Live, n \in 1 .. MaxDispatch :
             MessageRaises(s, n) => ClosedAfter(s)]_vars

\* the on_message half alone: a dispatch that raises closes the session
C19_DispatchRaiseCloses ==
    [][\A s \in Live, n \in 1 .. MaxDispatch :
          MessageRaises(s, n) => ClosedAfter(s)]_vars

\* session s is closed, unbound from its connection, with both slots empty
\* and unrouted, in world w
ClosedClean(w, s) ==
    /\ w.sessions[s].state \in {CLOSING, CLOSED}
    /\ ~w.sessions[s].conn
    /\ w.sessions[s].send_transport = None
    /\ w.sessions[s].recv_transport = None
    /\ \A i \in SessionIds : w.active_sessions[i] # s

\* the application's on_close raised in this step, closing session s
OnCloseRaised(s) == sessions'[s].failed /\ ~sessions[s].failed

\* C20: if the application's on_close throws, the exception does not leave
\* close(), and the session still ends CLOSING or CLOSED, its conn unbound,
\* both transport slots cleared and its entry gone from active_sessions.
C20_OnCloseRaiseContained ==
    [][\A s \in Live :
          /\ (~closed(sessions[s]) /\ sessions[s].conn)
             => \A r \in {close([World EXCEPT !.raising = TRUE], s,
                                3000, "Go away!")} :
                    /\ r.exc = ""
                    /\ r.sessions[s].failed
                    /\ r.sessions[s].callbacks =
                           Append(sessions[s].callbacks, "close")
                    /\ ClosedClean(r, s)
          /\ OnCloseRaised(s)
             => ClosedClean([sessions |-> sessions',
                             active_sessions |-> active_sessions'], s)]_vars

\* a session whose on_close raised while a transport was attached: the
\* close frame still went out and the session is CLOSED
C20_Witness ==
    \E s \in Live :
        /\ sessions[s].failed
        /\ sessions[s].state = CLOSED
        /\ sessions[s].callbacks = <<"open", "close">>
        /\ ~sessions[s].conn
        /\ sessions[s].send_transport = None
        /\ \A i \in SessionIds : active_sessions[i] # s

IpMismatch == close_frame(2010, "IP session mismatch")

\* a request of the given kind for the routed session s from address ip,
\* handled in this step
Request(s, kind, ip) ==
    /\ Routed(s)
    /\ NextTransport # None
    /\ transports'[NextTransport].kind = kind
    /\ transports'[NextTransport].ip = ip
    /\ IF kind = "xhr_send"
       THEN \E n \in 1 .. MaxDispatch, cb \in AppChoices, io \in BOOLEAN :
               RecvRequest(sessions[s].sid, ip, n, cb, io)
       ELSE \E io \in BOOLEAN : SendRequest(kind, sessions[s].sid, ip, "none", io)

HttpKinds == SendKinds \cup {"xhr_send"}

\* C21: with verify_ip enabled, a request for an existing session from an
\* address other than the one recorded at its creation is answered with
\* c[2010,"IP session mismatch"], is not attached, and leaves the session as
\* it was; a request from the recorded address is never answered so.
C21_IpPinned ==
    [][\A s \in Live, kind \in HttpKinds, ip \in RemoteIps :
          (settings.verify_ip /\ Request(s, kind, ip))
          => IF ip # sessions[s].conn_info
             THEN /\ transports'[NextTransport].out =
                         <<encode_frame(kind, IpMismatch)>>
                  /\ transports'[NextTransport].session = None
                  /\ sessions'[s] = sessions[s]
                  /\ active_sessions' = active_sessions
                  /\ pool_sessions' = pool_sessions
             ELSE \A i \in DOMAIN transports'[NextTransport].out :
                      transports'[NextTransport].out[i]
                          # encode_frame(kind, IpMismatch)]_vars

\* a request from another host was turned away while the session is open
C21_Witness ==
    \E s \in Live, t \in TransportObjs :
        /\ Routed(s)
        /\ sessions[s].state = OPEN
        /\ transports[t].ip # sessions[s].conn_info
        /\ transports[t].out = <<encode_frame(transports[t].kind, IpMismatch)>>
        /\ transports[t].finished

\* an xhr_send for a session id no session is routed under, in this step
SendToMissing(id) ==
    /\ get_session(World, id) = None
    /\ NextTransport # None
    /\ transports'[NextTransport].kind = "xhr_send"
    /\ RecvRequest(id, ClientIp, 1, "none", TRUE)

\* a session object is constructed in this step
Created(s) == World.sessions[s].cls = "none" /\ sessions'[s].cls # "none"

\* C22: a receive-only request for a session id that has no session yields
\* HTTP 404, creates no session, registers nothing in the pool and dispatches
\* nothing; only send-capable transports ever create sessions.
C22_MissingIs404 ==
    [][/\ \A id \in ClientIds :
             SendToMissing(id) =>
                 /\ transports'[NextTransport].error = "HTTPError 404"
                 /\ transports'[NextTransport].out = <<>>
                 /\ transports'[NextTransport].session = None
                 /\ sessions' = World.sessions
                 /\ pool_sessions' = pool_sessions
                 /\ active_sessions' = active_sessions
                 /\ pool' = pool
                 /\ cycles' = cycles
       /\ \A s \in SessionObjs :
             Created(s) =>
                 /\ NextTransport # None
                 /\ sendable(transports'[NextTransport].kind)
                 /\ transports'[NextTransport].kind # "none"]_vars

\* an xhr_send was answered 404 with nothing written and no session routed
C22_Witness ==
    \E t \in TransportObjs :
        /\ transports[t].kind = "xhr_send"
        /\ transports[t].error = "HTTPError 404"
        /\ transports[t].out = <<>>
        /\ transports[t].finished
        /\ \A i \in SessionIds : active_sessions[i] = None

Interrupted == [code |-> 1002, reason |-> "Connection interrupted"]

\* the connection of transport t, bound to session s, closes in this step
\* before its request has finished
Aborted(t, s) ==
    /\ transports[t].connected
    /\ ~transports[t].finished
    /\ transports[t].session = s
    /\ ~transports'[t].connected

\* transport t has let go of session s, which is closed, after the step
LetGo(t, s) ==
    /\ sessions'[s].state \in {CLOSING, CLOSED}
    /\ transports'[t].session = None
    /\ sessions'[s].send_transport # t
    /\ sessions'[s].recv_transport # t

\* C23: when the connection of a bound transport closes while its request
\* has not finished, the session is closed with (1002, "Connection
\* interrupted") and the transport is detached; the connection close of a
\* finished request closes no session.
C23_AbortCloses1002 ==
    [][\A t \in TransportObjs, s \in Live :
          /\ Aborted(t, s)
             => LetGo(t, s) /\ sessions'[s].close_reason = Interrupted
          /\ (transports[t].finished /\ transports[t].kind \in SendKinds)
             => \A r \in {BaseTransport_on_connection_close(World, t)} :
                   /\ r.sessions = World.sessions
                   /\ r.active_sessions = active_sessions]_vars

\* what the transports do: the HTTP transports close the session with
\* (1002, "Connection interrupted"); a websocket whose socket closes leaves
\* through on_close, which closes the session with the default
\* (3000, "Go away!")
C23_AbortCloses ==
    [][\A t \in TransportObjs, s \in Live :
          /\ Aborted(t, s)
             => /\ LetGo(t, s)
                /\ sessions'[s].close_reason =
                       IF transports[t].kind \in SendKinds THEN Interrupted
                       ELSE [code |-> 3000, reason |-> "Go away!"]
          /\ (transports[t].finished /\ transports[t].kind \in SendKinds)
             => \A r \in {BaseTransport_on_connection_close(World, t)} :
                   /\ r.sessions = World.sessions
                   /\ r.active_sessions = active_sessions]_vars

\* the bytes of the chunks of a response
RECURSIVE Bytes(_)
Bytes(chunks) == IF chunks = <<>> THEN 0 ELSE Len(chunks[1]) + Bytes(Tail(chunks))

\* the bytes written on the response of transport t: the frames, and before
\* them the prelude that XhrStreamingTransport.post writes
Written(t) ==
    (IF transports[t].kind = "xhr_streaming" THEN PreludeLen ELSE 0)
        + Bytes(transports[t].out)

\* the xhr_streaming responses whose client is there to read them
StreamingResponses ==
    {t \in TransportObjs : /\ transports[t].kind = "xhr_streaming"
                           /\ transports[t].connected
                           /\ transports[t].error = ""}

\* C24: an xhr_streaming response is finished as soon as the bytes written
\* on it, the prelude included, reach response_limit, and the byte budget
\* does not finish it earlier.
C24_BudgetCountsPrelude ==
    \A t \in StreamingResponses :
        /\ Written(t) >= settings.response_limit => transports[t].finished
        /\ should_finish(transports[t].amount_limit)
           => Written(t) >= settings.response_limit

\* what the budget counts: the frames alone
C24_BudgetCountsFrames ==
    \A t \in StreamingResponses :
        /\ transports[t].amount_limit
               = settings.response_limit - Bytes(transports[t].out)
        /\ Bytes(transports[t].out) >= settings.response_limit
           => transports[t].finished

\* the pool is stopped in this step
Stops == ~stopping /\ stopping'

GcPass == gc(World)

\* C26: a gc pass ends, and pops no session twice: it pops only sessions
\* that were registered with a stamp before the pass's time, so a session
\* added or last visited at the time of the pass is not popped
C26_GcPopsOnce ==
    \A r \in {GcPass} :
        /\ Len(r.popped) <= Len(pool)
        /\ \A i, j \in DOMAIN r.popped : r.popped[i] = r.popped[j] => i = j
        /\ \A i \in DOMAIN r.popped :
              /\ pool_sessions[sessions[r.popped[i]].sid] = r.popped[i]
              /\ cycles[r.popped[i]] < now
        /\ \A s \in Live :
              (pool_sessions[sessions[s].sid] = s /\ cycles[s] >= now)
              => /\ \A i \in DOMAIN r.popped : r.popped[i] # s
                 /\ r.pool_sessions[sessions[s].sid] = s
                 /\ r.cycles[s] = cycles[s]

\* a pool of two sessions, one stamped at the time of the pass and one
\* before: the pass pops the older one, once, and not the other
C26_Witness ==
    /\ Len(pool) = 2
    /\ cycles[pool[1][2]] < now
    /\ cycles[pool[2][2]] = now
    /\ GcPass.popped = <<pool[1][2]>>

\* the sessions the pool has registered
Registered == {s \in Live : pool_sessions[sessions[s].sid] = s}

\* the gc timer fires at a time after every stamp the pool has stored
SweepsAll ==
    /\ now' = now
    /\ pool # <<>>
    /\ ~stopping
    /\ \A s \in Registered : cycles[s] < now
    /\ Gc_tick

\* C27: a gc pass at a time after every stored stamp removes each session
\* that has expired at that time, and each session it removes has been
\* closed; each session that has not expired stays registered, stamped with
\* the time of the pass; no session left in the registry has expired
C27_GcSweeps ==
    [][SweepsAll =>
         /\ \A s \in Registered :
               IF has_expired(World, s, now)
               THEN /\ pool_sessions'[sessions[s].sid] = None
                    /\ closed(sessions'[s])
                    /\ \A i \in DOMAIN pool' : pool'[i][2] # s
               ELSE /\ pool_sessions'[sessions[s].sid] = s
                    /\ cycles'[s] = now
                    /\ \E i \in DOMAIN pool' : pool'[i] = <<now, s>>
                    /\ sessions'[s] = sessions[s]
         /\ \A i \in DOMAIN pool_sessions' :
               pool_sessions'[i] # None
               => ~has_expired(World', pool_sessions'[i], now)]_vars

\* a pass has removed an open session that had expired, closing it, and
\* has kept and stamped the session that had not
C27_Witness ==
    \E s, r \in Live :
        /\ pool_sessions[sessions[r].sid] = None
        /\ sessions[r].states = <<NEW_, OPEN, CLOSING>>
        /\ sessions[r].expires_at <= now
        /\ sessions[r].callbacks = <<"open", "close">>
        /\ pool_sessions[sessions[s].sid] = s
        /\ cycles[s] = now
        /\ pool = <<<<now, s>>>>
        /\ sessions[s].state = OPEN
        /\ sessions[s].expires_at > now

\* C28: with the gc timer firing again and again (the pool is never
\* stopped), a session that is CLOSING is CLOSED at some later time
C28_ClosingThenClosed ==
    \/ <>stopping
    \/ \A s \in SessionObjs :
           (sessions[s].state = CLOSING) ~> (sessions[s].state = CLOSED)

\* the reasons close() is called with
CloseReasons == {[code |-> 3000, reason |-> "Go away!"], Interrupted}

\* what close(code, msg) leaves of session s, whose send slot held t, in
\* world r: the session unbound, both slots empty, CLOSED if a send
\* transport was attached and CLOSING if none was
CloseReturned(r, s, t, reason) ==
    /\ r.exc = ""
    /\ ~r.sessions[s].conn
    /\ r.sessions[s].send_transport = None
    /\ r.sessions[s].recv_transport = None
    /\ r.sessions[s].close_reason = reason
    /\ r.sessions[s].state = IF t # None THEN CLOSED ELSE CLOSING

\* transport t has been written the close frame, framed its way
CloseFrameOut(r, t, reason) ==
    r.transports[t].out =
        Append(transports[t].out,
               encode_frame(transports[t].kind,
                            close_frame(reason.code, reason.reason)))

Everything == [World EXCEPT !.sessions = sessions, !.transports = transports]

\* C30: close() on a session that is CLOSING or CLOSED changes nothing,
\* whatever the reason it is given: state and close_reason stay as the
\* first close set them, no callback runs and no frame is written; so the
\* close() that SessionPool.remove makes when gc drops a closed session
\* leaves the session and every transport as they were
C30_ClosedCloseNothing ==
    [][/\ \A s \in Live : \A reason \in CloseReasons :
             closed(sessions[s])
             => close(Everything, s, reason.code, reason.reason) = Everything
       /\ \A s \in Registered :
             (closed(sessions[s]) /\ Gc_tick /\ pool_sessions'[sessions[s].sid] = None)
             => /\ sessions'[s] = sessions[s]
                /\ \A t \in TransportObjs :
                      transports'[t].out = World.transports[t].out]_vars

\* a session closed with (1002, "Connection interrupted") when its
\* streaming response was cut, and dropped from the pool afterwards, which
\* closed it again: it has the reason and the one on_close of the first close
C30_Witness ==
    \E s \in Live :
        /\ sessions[s].state = CLOSED
        /\ sessions[s].close_reason = Interrupted
        /\ Count(sessions[s].callbacks, "close") = 1
        /\ pool_sessions[sessions[s].sid] # s
        /\ \A i \in DOMAIN pool : pool[i][2] # s
        /\ ~stopping
        /\ close(Everything, s, 3000, "Go away!").sessions[s] = sessions[s]

\* the request handler objects that exist
Handlers == {t \in TransportObjs : World.transports[t].kind # "none"}

\* session s holds transport t in no slot that matches t's capabilities
Unheld(s, t) ==
    /\ sendable(transports[t].kind) => sessions[s].send_transport # t
    /\ recvable(transports[t].kind) => sessions[s].recv_transport # t

\* a slot that matches t's capabilities holds another transport
OtherHeld(s, t) ==
    \/ sendable(transports[t].kind) /\ sessions[s].send_transport \notin {None, t}
    \/ recvable(transports[t].kind) /\ sessions[s].recv_transport \notin {None, t}

\* detach_transport(t) on session s raises and leaves both slots as they were
DetachFails(s, t) ==
    \A r \in {detach_transport(World, s, t)} :
        /\ r.exc # ""
        /\ r.sessions[s].send_transport = sessions[s].send_transport
        /\ r.sessions[s].recv_transport = sessions[s].recv_transport

\* C31: detach_transport(t) for a transport the session does not hold in
\* the slot matching its capabilities raises and leaves both slots as they
\* were, whether the slot holds another transport or is empty
C31_DetachUnheldFails ==
    \A s \in Live, t \in Handlers : Unheld(s, t) => DetachFails(s, t)

\* the half of C31 the code keeps: when a matching slot holds another
\* transport, detach_transport raises and both slots are as they were
C31_DetachOtherFails ==
    \A s \in Live, t \in Handlers : OtherHeld(s, t) => DetachFails(s, t)

\* a session holds one transport while a handler for another exists
C31_OtherReached ==
    \E s \in Live, t \in Handlers : Unheld(s, t) /\ OtherHeld(s, t)

\* the payloads send() is called with
SendArgs == {Messages[i] : i \in DOMAIN Messages}

\* C32: send() on a session with no send transport writes to no transport
\* and appends the encoded payload at the tail of the buffer; send() whose
\* write to the attached send transport succeeds leaves the buffer as it was
\* (and the transport has the array frame of the payload)
C32_SendBuffersOrWrites ==
    \A s \in Framed : \A message \in SendArgs, io \in BOOLEAN :
        \A r \in {send(Everything, s, message, io)} :
            \A t \in {sessions[s].send_transport} :
                /\ r.exc = ""
                /\ t = None
                   => /\ r.transports = transports
                      /\ r.sessions[s].wire = sessions[s].wire
                      /\ r.sessions[s].send_buffer =
                            Append(sessions[s].send_buffer, encode(message))
                /\ (t # None /\ transports[t].connected /\ ~IOFails(Everything, t, io))
                   => /\ r.sessions[s].send_buffer = sessions[s].send_buffer
                      /\ r.transports[t].out =
                            Append(transports[t].out,
                                   encode_frame(transports[t].kind,
                                                "a[" \o encode(message) \o "]"))

\* the application has sent twice to an open session between two polls:
\* both payloads are in the buffer, in the order sent, and the client has
\* the open frame alone
C32_Witness ==
    \E s \in Framed :
        /\ sessions[s].state = OPEN
        /\ sessions[s].send_transport = None
        /\ sessions[s].send_buffer = <<encode(Messages[1]), encode(Messages[2])>>
        /\ sessions[s].wire = <<proto_OPEN>>

OpenSends(id, io) ==
    /\ NextTransport # None
    /\ NextSession # None
    /\ get_session(World, id) = None
    /\ transports'[NextTransport].kind = "xhr"
    /\ SendRequest("xhr", id, ClientIp, "send", io)
    /\ sessions'[NextSession].callbacks = <<"open">>

\* C34: a polling response carries one frame: the write of a frame finishes
\* the request and detaches it from the session, so no second frame is
\* written to it, and a poll that has finished with its connection up and
\* without an error has carried one; a message the application sends from
\* on_open, after the open frame, is buffered and not written to the poll
C34_PollOneFrame ==
    [][/\ \A t \in TransportObjs :
             transports'[t].kind = "xhr"
             => /\ Len(transports'[t].out) <= 1
                /\ Len(transports'[t].out) = 1
                   => /\ transports'[t].finished
                      /\ transports'[t].session = None
                      /\ \A s \in SessionObjs :
                            /\ sessions'[s].send_transport # t
                            /\ sessions'[s].recv_transport # t
                /\ (/\ transports'[t].finished
                    /\ transports'[t].connected
                    /\ transports'[t].error = "")
                   => Len(transports'[t].out) = 1
       /\ \A id \in ClientIds :
             OpenSends(id, TRUE)
             => /\ transports'[NextTransport].out = <<proto_OPEN \o "\n">>
                /\ transports'[NextTransport].finished
                /\ sessions'[NextSession].state = OPEN
                /\ sessions'[NextSession].wire = <<proto_OPEN>>
                /\ sessions'[NextSession].send_buffer = <<encode(Messages[1])>>
                /\ sessions'[NextSession].send_transport = None]_vars

\* the first poll of a session has ended with the open frame alone, and the
\* message the application sent from on_open is in the buffer
C34_Witness ==
    \E s \in Framed, t \in TransportObjs :
        /\ transports[t].kind = "xhr"
        /\ transports[t].out = <<proto_OPEN \o "\n">>
        /\ transports[t].finished
        /\ transports[t].session = None
        /\ sessions[s].callbacks = <<"open">>
        /\ sessions[s].nsent = 1
        /\ sessions[s].wire = <<proto_OPEN>>
        /\ sessions[s].send_buffer = <<encode(Messages[1])>>
        /\ sessions[s].send_transport = None
        /\ now = 1

\* the first request for session id, a streaming one, with the application
\* doing cb from on_open: the request of this step
FirstStream(id, cb) ==
    /\ NextTransport # None
    /\ NextSession # None
    /\ get_session(World, id) = None
    /\ transports'[NextTransport].kind = "xhr_streaming"
    /\ SendRequest("xhr_streaming", id, ClientIp, cb, TRUE)
    /\ sessions'[NextSession].callbacks # <<>>

\* C35: the client of a SockJS session is written the open frame at most
\* once, and as the first frame; it is written in a step that finds the
\* session NEW (or makes it), and a session whose on_open has run has been
\* written it, before on_open: what on_open sends or closes comes after it
C35_OpenFrameOnceFirst ==
    [][/\ \A s \in SessionObjs :
             sessions'[s].cls = "Session"
             => /\ Count(sessions'[s].wire, proto_OPEN) <= 1
                /\ sessions'[s].wire # <<>> => sessions'[s].wire[1] = proto_OPEN
                /\ Count(sessions'[s].callbacks, "open") >= 1
                   => /\ sessions'[s].wire # <<>>
                      /\ Len(sessions'[s].states) >= 2
                      /\ sessions'[s].states[2] = OPEN
                /\ (/\ sessions'[s].wire # <<>>
                    /\ World.sessions[s].wire = <<>>)
                   => World.sessions[s].state = NEW_
       /\ \A id \in ClientIds :
             /\ FirstStream(id, "send")
                => sessions'[NextSession].wire =
                      <<proto_OPEN, "a[" \o encode(Messages[1]) \o "]">>
             /\ FirstStream(id, "close")
                => sessions'[NextSession].wire = <<proto_OPEN, GoAway>>]_vars

\* a session opened by a streaming request, the application sending from
\* on_open: the client has the open frame, then the message
C35_Witness ==
    \E s \in Framed, t \in TransportObjs :
        /\ sessions[s].state = OPEN
        /\ sessions[s].callbacks = <<"open">>
        /\ sessions[s].wire = <<proto_OPEN, "a[" \o encode(Messages[1]) \o "]">>
        /\ sessions[s].send_transport = t
        /\ transports[t].kind = "xhr_streaming"
        /\ transports[t].out =
              <<proto_OPEN \o "\n", "a[" \o encode(Messages[1]) \o "]\n">>

\* a poll or streaming request for session id, which get_session does not
\* find, on a running endpoint: the request of this step
UnroutedRequest(id, kind) ==
    /\ started
    /\ ~stopping
    /\ get_session(World, id) = None
    /\ NextTransport # None
    /\ transports'[NextTransport].kind = kind
    /\ \E cb \in AppChoices, io \in BOOLEAN : SendRequest(kind, id, ClientIp, cb, io)

\* C36: when get_session(id) finds no session, a send-capable request for
\* the id creates a session and registers it: create_session does not fail
\* on a session of the same id that the pool still holds
C36_CreateNeverCollides ==
    [][\A id \in ClientIds, kind \in SendKinds :
          UnroutedRequest(id, kind)
          => /\ transports'[NextTransport].error # "RuntimeError"
             /\ \E s \in SessionObjs : Created(s) /\ pool_sessions'[id] = s]_vars

\* the close frames a session is closed with
SessionCloseFrames == {close_frame(reason.code, reason.reason) : reason \in CloseReasons}

\* the client of session s has been written the close frame of the session
CloseWritten(s) ==
    \E i \in DOMAIN sessions[s].wire : sessions[s].wire[i] \in SessionCloseFrames

\* C37: once the close frame of a session has been written to its client
\* no other frame of the session follows it: none has, and a send or a
\* heartbeat on the session from then on writes to no transport
C37_NothingAfterClose ==
    \A s \in Live :
        /\ \A i, j \in DOMAIN sessions[s].wire :
              (i < j /\ sessions[s].wire[i] \in SessionCloseFrames)
              => sessions[s].wire[j] \in SessionCloseFrames
        /\ CloseWritten(s)
           => \A io \in BOOLEAN :
                 /\ \A r \in {Connection_send(Everything, s, io)} :
                       r.transports = transports /\ r.sessions[s].wire = sessions[s].wire
                 /\ \A r \in {send_heartbeat(Everything, s, io)} :
                       r.transports = transports /\ r.sessions[s].wire = sessions[s].wire
                 /\ \A r \in {flush(Everything, s, io)} :
                       r.transports = transports /\ r.sessions[s].wire = sessions[s].wire

\* a streaming client has had the open frame, a message and the close
\* frame, in this order, and the session is CLOSED
C37_Witness ==
    \E s \in Framed :
        /\ sessions[s].wire =
              <<proto_OPEN, "a[" \o encode(Messages[1]) \o "]", GoAway>>
        /\ sessions[s].state = CLOSED
        /\ sessions[s].send_transport = None
        /\ sessions[s].nsent = 1

\* session s holds transport t in every slot matching t's capabilities
HeldBy(s, t) ==
    /\ sendable(transports[t].kind) \/ recvable(transports[t].kind)
    /\ sendable(transports[t].kind) => sessions[s].send_transport = t
    /\ recvable(transports[t].kind) => sessions[s].recv_transport = t

\* the request of transport t has finished: an HTTP request is finished by
\* finish(); a websocket on which close() was called stays open until its
\* on_close runs
RequestOver(t) ==
    /\ transports[t].kind \notin {"websocket", "rawwebsocket"}
    /\ transports[t].finished

\* C38: between handlers a transport refers to session s exactly when s
\* holds it in the slots matching its capabilities; a slot holds only a
\* transport of the slot's capability that refers back to the session and
\* whose request has not finished
C38_RefsConsistent ==
    /\ \A t \in TransportObjs, s \in SessionObjs :
          (transports[t].kind # "none" /\ sessions[s].cls # "none")
          => (transports[t].session = s <=> HeldBy(s, t))
    /\ \A s \in Live : \A t \in TransportObjs :
          /\ sessions[s].send_transport = t
             => /\ sendable(transports[t].kind)
                /\ transports[t].session = s
                /\ ~RequestOver(t)
          /\ sessions[s].recv_transport = t
             => /\ recvable(transports[t].kind)
                /\ transports[t].session = s
                /\ ~RequestOver(t)

C38_Witness ==
    \E s \in Live : \E t, u \in TransportObjs :
        /\ transports[t].kind = "xhr_streaming"
        /\ transports[t].session = s
        /\ sessions[s].send_transport = t
        /\ sessions[s].recv_transport = None
        /\ transports[u].kind = "xhr_send"
        /\ transports[u].finished
        /\ transports[u].session = None
        /\ "message" \in {sessions[s].callbacks[i] : i \in DOMAIN sessions[s].callbacks}

\* C39: start() on a stopped endpoint leaves it started with a running,
\* empty pool in which create_session succeeds; start() on a started
\* endpoint and stop() on a stopped one change nothing
C39_RestartWorks ==
    [][/\ (~started /\ Start)
          => /\ started'
             /\ ~stopping'
             /\ pool' = <<>>
             /\ \A i \in SessionIds : pool_sessions'[i] = None
             /\ \A id \in ClientIds : \A w \in {World'} :
                   FreeSession(w) # None
                   => create_session(w, FreeSession(w), id).exc = ""
       /\ started => Endpoint_start(World) = World
       /\ ~started => Endpoint_stop(World) = World]_vars

\* the sessions the registry holds, the keys of cycles, the sessions of the
\* heap entries
RegistrySessions == {pool_sessions[i] : i \in DOMAIN pool_sessions} \ {None}
CycleKeys == {s \in SessionObjs : cycles[s] # 0}
HeapSessions == {pool[k][2] : k \in DOMAIN pool}

\* the registry, cycles and the heap describe the same sessions
PoolConsistent ==
    /\ RegistrySessions = CycleKeys
    /\ CycleKeys = HeapSessions
    /\ Len(pool) = Cardinality(HeapSessions)
    /\ \A k \in DOMAIN pool : pool[k][1] = cycles[pool[k][2]]
    /\ \A i \in DOMAIN pool_sessions :
          pool_sessions[i] # None => sessions[pool_sessions[i]].sid = i
    /\ \A i, j \in DOMAIN pool_sessions :
          (i # j /\ pool_sessions[i] # None) => pool_sessions[i] # pool_sessions[j]

\* an add that raises: the pool is stopping, the id is registered, or the
\* session is not NEW
FailedAdd ==
    \E session_id \in PoolIds, state \in {NEW_, OPEN} :
        /\ add_exc(World, session_id, state) # ""
        /\ Pool_add(session_id, state)

\* C40: after any sequence of add, remove and gc the registry, the keys of
\* cycles and the sessions of the heap entries are the same set, each heap
\* entry carries the stamp cycles has for its session, no two registered
\* sessions share an id, and an add that raises changes none of the three
C40_PoolConsistent ==
    /\ []PoolConsistent
    /\ [][FailedAdd => UNCHANGED <<pool_sessions, cycles, pool>>]_vars

C40_Witness ==
    /\ ~stopping
    /\ Len(pool) = 2
    /\ pool[1][1] < pool[2][1]
    /\ \E s \in SessionObjs : sessions[s].state = NEW_ /\ pool_sessions[PoolId(3 - s)] = s
    /\ \E session_id \in PoolIds : add_exc(World, session_id, NEW_) # ""

====
